---- MODULE Spec2Model ----
(***************************************************************************)
(* Model of the TMDL canonicalization scripts.  A text is a sequence of    *)
(* one-character strings; a tool run is one action that reads the file,     *)
(* computes what the script computes and writes what the script writes.     *)
(***************************************************************************)
EXTENDS Integers, Sequences, FiniteSets, TLC

VARIABLES
    file,     \* content of the .tmdl file the tool works on
    args,     \* command-line options of the tool
    hist,     \* file content at start and after every completed run
    stdout,   \* lines printed by the last run
    status    \* how the last run ended: "none", "ok", "exit1", "ValueError"

vars == <<file, args, hist, stdout, status>>

\* ------------------------------------------------------------- bounds
MaxLines == 3
MaxChunks == 3
MaxRuns == 2

\* ----------------------------------------------------- str primitives
NL == "\n"

\* str.isspace() on the characters of the modelled alphabet (also regex \s)
IsSpace(c) == c \in {" ", "\t", "\n", "\r"}

\* regex [ \t]
IsBlank(c) == c \in {" ", "\t"}

\* re.IGNORECASE folding of one character
Lower(c) ==
    CASE c = "A" -> "a"
      [] c = "B" -> "b"
      [] c = "C" -> "c"
      [] c = "D" -> "d"
      [] c = "E" -> "e"
      [] c = "F" -> "f"
      [] c = "G" -> "g"
      [] c = "H" -> "h"
      [] c = "I" -> "i"
      [] c = "J" -> "j"
      [] c = "K" -> "k"
      [] c = "L" -> "l"
      [] c = "M" -> "m"
      [] c = "N" -> "n"
      [] c = "O" -> "o"
      [] c = "P" -> "p"
      [] c = "Q" -> "q"
      [] c = "R" -> "r"
      [] c = "S" -> "s"
      [] c = "T" -> "t"
      [] c = "U" -> "u"
      [] c = "V" -> "v"
      [] c = "W" -> "w"
      [] c = "X" -> "x"
      [] c = "Y" -> "y"
      [] c = "Z" -> "z"
      [] OTHER -> c

WordChars ==
    {"A","B","C","D","E","F","G","H","I","J","K","L","M","N","O","P","Q","R","S","T","U","V","W","X","Y","Z",
     "a","b","c","d","e","f","g","h","i","j","k","l","m","n","o","p","q","r","s","t","u","v","w","x","y","z",
     "0","1","2","3","4","5","6","7","8","9","_"}

\* regex \w
IsWord(c) == c \in WordChars

MinOf(S) == CHOOSE x \in S : \A y \in S : x <= y
MaxOf(S) == CHOOSE x \in S : \A y \in S : x >= y

\* s[from:] in Python slicing, 1-based
Tail_(s, from) == SubSeq(s, from, Len(s))

\* s.startswith(lit, p-1): lit occurs in s at position p
At(s, p, lit) ==
    /\ p >= 1
    /\ p + Len(lit) - 1 <= Len(s)
    /\ \A i \in 1..Len(lit) : s[p + i - 1] = lit[i]

\* the same under re.IGNORECASE, for a literal in lower case
AtCI(s, p, lit) ==
    /\ p >= 1
    /\ p + Len(lit) - 1 <= Len(s)
    /\ \A i \in 1..Len(lit) : Lower(s[p + i - 1]) = lit[i]

\* sub in s
Contains(s, sub) == \E p \in 1..(Len(s) + 1) : At(s, p, sub)

\* first position >= p whose character is not in the class, Len(s)+1 if none
RECURSIVE SkipSpace(_, _)
SkipSpace(s, p) ==
    IF p <= Len(s) /\ IsSpace(s[p]) THEN SkipSpace(s, p + 1) ELSE p

RECURSIVE SkipWord(_, _)
SkipWord(s, p) ==
    IF p <= Len(s) /\ IsWord(s[p]) THEN SkipWord(s, p + 1) ELSE p

RECURSIVE SkipBlank(_, _)
SkipBlank(s, p) ==
    IF p <= Len(s) /\ IsBlank(s[p]) THEN SkipBlank(s, p + 1) ELSE p

\* last position <= p whose character is not white space, 0 if none
RECURSIVE SkipSpaceBack(_, _)
SkipSpaceBack(s, p) ==
    IF p >= 1 /\ IsSpace(s[p]) THEN SkipSpaceBack(s, p - 1) ELSE p

LStrip(s) == SubSeq(s, SkipSpace(s, 1), Len(s))
RStrip(s) == SubSeq(s, 1, SkipSpaceBack(s, Len(s)))
Strip(s) == LStrip(RStrip(s))

\* end of the line that holds position p: the position of its "\n", or Len(s)+1
RECURSIVE LineEnd(_, _)
LineEnd(s, p) ==
    IF p <= Len(s) /\ s[p] # NL THEN LineEnd(s, p + 1) ELSE p

\* str.splitlines() for "\n"-separated text
RECURSIVE SplitLines(_)
SplitLines(t) ==
    IF t = <<>> THEN <<>>
    ELSE LET e == LineEnd(t, 1)
         IN  <<SubSeq(t, 1, e - 1)>> \o SplitLines(Tail_(t, e + 1))

\* sep.join(parts)
RECURSIVE Join(_, _)
Join(parts, sep) ==
    IF parts = <<>> THEN <<>>
    ELSE IF Len(parts) = 1 THEN parts[1]
    ELSE parts[1] \o sep \o Join(Tail(parts), sep)

\* s.replace(old, new): non-overlapping occurrences, left to right
RECURSIVE Replace(_, _, _)
Replace(s, old, new) ==
    LET hits == {p \in 1..(Len(s) - Len(old) + 1) : At(s, p, old)}
    IN  IF hits = {} THEN s
        ELSE LET p == MinOf(hits)
             IN  SubSeq(s, 1, p - 1) \o new
                     \o Replace(Tail_(s, p + Len(old)), old, new)

\* " " * n
Spaces(n) == [i \in 1..n |-> " "]

\* -------------------------------------------- normalize_tmdl_style.py
BLOCK_OPENERS == {
    <<"c","o","l","u","m","n","s">>,
    <<"m","e","a","s","u","r","e","s">>,
    <<"h","i","e","r","a","r","c","h","i","e","s">>,
    <<"p","a","r","t","i","t","i","o","n","s">>,
    <<"a","n","n","o","t","a","t","i","o","n","s">>,
    <<"c","a","l","c","u","l","a","t","i","o","n","G","r","o","u","p">>,
    <<"c","a","l","c","u","l","a","t","i","o","n","G","r","o","u","p","s">>,
    <<"d","a","t","a","A","c","c","e","s","s","O","p","t","i","o","n","s">>,
    <<"l","e","g","a","c","y","R","e","d","i","r","e","c","t","s">>,
    <<"f","o","r","m","a","t","S","t","r","i","n","g","D","e","f","i","n","i","t","i","o","n">>,
    <<"d","i","s","p","l","a","y","F","o","l","d","e","r","s">>,
    <<"r","o","l","e","s">>,
    <<"t","a","b","l","e","s">>}

\* the part of a line before a closing "{" that only white space follows
\* (the text every opener regex keeps or inspects); <<>> when the line has none
BeforeBrace(line) ==
    LET r == RStrip(line)
    IN  IF r # <<>> /\ r[Len(r)] = "{" THEN SubSeq(line, 1, Len(r) - 1) ELSE <<>>

EndsWithBrace(line) ==
    LET r == RStrip(line) IN r # <<>> /\ r[Len(r)] = "{"

\* HeaderMatch with the name written as .+ instead of [^\{\n]+ : a name may
\* then hold a brace
HeaderMatch_AnyName(line, kw, minName) ==
    LET P == IF \E i \in 1..Len(line) : line[i] = "{"
             THEN SubSeq(line, 1, MaxOf({i \in 1..Len(line) : line[i] = "{"}) - 1)
             ELSE <<>>
        q == SkipSpace(P, 1)
        rest == Tail_(P, q + Len(kw))
    IN  /\ RStrip(line) # <<>>
        /\ RStrip(line)[Len(RStrip(line))] = "{"
        /\ At(P, q, kw)
        /\ Len(rest) >= 1 + minName
        /\ IsSpace(rest[1])

\* ^(\s*)(kw\s+[^\{\n]{minName,})\s*\{\s*$ : the header regexes, which differ in
\* the keyword and in whether a name is required (+ for table and
\* relationship, * for model)
HeaderMatch(line, kw, minName) ==
    LET P == BeforeBrace(line)
        q == SkipSpace(P, 1)
        rest == Tail_(P, q + Len(kw))
    IN  /\ EndsWithBrace(line)
        /\ ~ \E i \in 1..Len(P) : P[i] = "{"
        /\ At(P, q, kw)
        /\ Len(rest) >= 1 + minName
        /\ IsSpace(rest[1])

RE_TABLE_HEADER(line) == HeaderMatch(line, <<"t","a","b","l","e">>, 1)
RE_MODEL_HEADER(line) == HeaderMatch(line, <<"m","o","d","e","l">>, 0)
RE_REL_HEADER(line) ==
    HeaderMatch(line, <<"r","e","l","a","t","i","o","n","s","h","i","p">>, 1)

\* ^(\s*)\b(label)\b\s*\{\s*$
RE_BLOCK_LABELS(line) ==
    /\ EndsWithBrace(line)
    /\ Strip(BeforeBrace(line)) \in BLOCK_OPENERS

RE_OPEN_BRACE_LINE(line) == Strip(line) = <<"{">>
RE_CLOSE_BRACE_LINE(line) == Strip(line) = <<"}">>

\* the loop body of transform_text: the lines one input line contributes
TransformLine(line) ==
    IF RE_TABLE_HEADER(line) \/ RE_MODEL_HEADER(line) \/ RE_REL_HEADER(line)
    THEN <<BeforeBrace(line)>>
    ELSE IF RE_BLOCK_LABELS(line)
    THEN <<RStrip(BeforeBrace(line)) \o <<":">> >>
    ELSE IF RE_OPEN_BRACE_LINE(line) \/ RE_CLOSE_BRACE_LINE(line)
    THEN <<>>
    ELSE <<line>>

RECURSIVE TransformLines(_)
TransformLines(lines) ==
    IF lines = <<>> THEN <<>>
    ELSE TransformLine(lines[1]) \o TransformLines(Tail(lines))

\* RE_EMPTY_LINES.sub("\n\n", text): runs of three or more "\n" become two
RECURSIVE CollapseBlank(_)
CollapseBlank(t) ==
    IF t = <<>> THEN <<>>
    ELSE IF At(t, 1, <<NL, NL, NL>>)
    THEN LET e == MinOf({i \in 1..(Len(t) + 1) : i > Len(t) \/ t[i] # NL})
         IN  <<NL, NL>> \o CollapseBlank(Tail_(t, e))
    ELSE <<t[1]>> \o CollapseBlank(Tail(t))

transform_text(t) ==
    Strip(CollapseBlank(Join(TransformLines(SplitLines(t)), <<NL>>))) \o <<NL>>

\* is_json_like: the file starts, after white space, with "{" or "["
is_json_like(t) ==
    LET s == LStrip(t) IN s # <<>> /\ s[1] \in {"{", "["}

StyleLines == {
    <<"t","a","b","l","e"," ","T"," ","{">>,
    <<"t","a","b","l","e"," ","T"," ","{"," ","{">>,
    <<"c","o","l","u","m","n"," ","c"," ","{">>,
    <<" "," ","c","o","l","u","m","n","s"," ","{">>,
    <<" "," ","{">>,
    <<"}">>,
    <<>>,
    <<"a">>,
    <<" "," ","b"," ">>}

TextsOf(lineSet, n) ==
    {Join(ls, <<NL>>) : ls \in UNION {[1..k -> lineSet] : k \in 0..n}}

InitStyle ==
    /\ file \in TextsOf(StyleLines, MaxLines)
    /\ args = [tool |-> "normalize_tmdl_style"]
    /\ hist = <<file>>
    /\ stdout = <<>>
    /\ status = "none"

\* process_file on a file that transform_text changes: the file is rewritten
StyleRewrite ==
    /\ Len(hist) <= MaxRuns
    /\ ~is_json_like(file)
    /\ transform_text(file) # file
    /\ file' = transform_text(file)
    /\ hist' = Append(hist, file')
    /\ status' = "ok"
    /\ UNCHANGED <<args, stdout>>

\* process_file on a JSON-like or already normalized file: nothing is written
StyleKeep ==
    /\ Len(hist) <= MaxRuns
    /\ is_json_like(file) \/ transform_text(file) = file
    /\ hist' = Append(hist, file)
    /\ status' = "ok"
    /\ UNCHANGED <<file, args, stdout>>

NextStyle == StyleRewrite \/ StyleKeep

SpecStyle == InitStyle /\ [][NextStyle]_vars

\* ------------------------------------------ fix_m_indent_and_braces.py
fix_braces(text) ==
    Replace(Replace(text, <<"{","{">>, <<"{">>), <<"}","}">>, <<"}">>)

NoMatch == [ok |-> FALSE]

\* [ \t]*source\s*=\s*\n([ \t]*)let at position q: the position after "let",
\* 0 when it does not match
HeadEnd(t, q) ==
    LET a == SkipBlank(t, q)
        b == SkipSpace(t, a + 6)
        d == SkipSpace(t, b + 1)
        nls == {n \in (b + 1)..(d - 1) : t[n] = NL}
    IN  IF /\ At(t, a, <<"s","o","u","r","c","e">>)
           /\ At(t, b, <<"=">>)
           /\ nls # {}
           /\ \A i \in (MaxOf(nls) + 1)..(d - 1) : IsBlank(t[i])
           /\ At(t, d, <<"l","e","t">>)
        THEN d + 3
        ELSE 0

\* [ \t]*(?P<ret>[^\n]+) at position s0, the start of a line: [ \t]* gives one
\* character back when nothing else is left on the line
RetAt(t, s0) ==
    LET s1 == SkipBlank(t, s0)
        le == LineEnd(t, s1)
    IN  IF le > s1 THEN [ok |-> TRUE, from |-> s1, to |-> le - 1]
        ELSE IF s1 > s0 THEN [ok |-> TRUE, from |-> s1 - 1, to |-> s1 - 1]
        ELSE NoMatch

\* \n[ \t]*in\s*\n[ \t]*(?P<ret>[^\n]+) at position k; \s* is greedy, so the
\* last "\n" of the white space after "in" that leaves a return line is taken
TailAt(t, k) ==
    LET a == SkipBlank(t, k + 1)
        g == a + 2
        h == SkipSpace(t, g)
        good == {n \in g..(h - 1) : t[n] = NL /\ RetAt(t, n + 1).ok}
    IN  IF At(t, k, <<NL>>) /\ At(t, a, <<"i","n">>) /\ good # {}
        THEN RetAt(t, MaxOf(good) + 1)
        ELSE NoMatch

\* let\s*\n(?P<body>[\s\S]*?)<tail> with e the position after "let": \s* is
\* greedy (the last "\n" of the white space is tried first), the body is lazy
\* (the first tail after the body start is taken)
BodyAt(t, e) ==
    LET f == SkipSpace(t, e)
        tails(b) == {k \in b..Len(t) : TailAt(t, k).ok}
        starts == {n + 1 : n \in {m \in e..(f - 1) : t[m] = NL /\ tails(m + 1) # {}}}
    IN  IF starts = {} THEN NoMatch
        ELSE LET b == MaxOf(starts)
                 k == MinOf(tails(b))
                 r == TailAt(t, k)
             IN  [ok |-> TRUE, body |-> SubSeq(t, b, k - 1),
                  ret |-> SubSeq(t, r.from, r.to), end |-> r.to]

\* the whole pattern at position p: (?:^|\n) then the header, body and tail
PatternAt(t, p) ==
    LET lineStart == p = 1 \/ (p - 1 <= Len(t) /\ t[p - 1] = NL)
        q == IF lineStart /\ HeadEnd(t, p) # 0 THEN p
             ELSE IF At(t, p, <<NL>>) /\ HeadEnd(t, p + 1) # 0 THEN p + 1
             ELSE 0
    IN  IF q = 0 THEN NoMatch ELSE BodyAt(t, HeadEnd(t, q))

\* raw_body.splitlines() stripped, empty lines skipped, each prefixed with bi
RECURSIVE BodyLines(_, _)
BodyLines(lines, bi) ==
    IF lines = <<>> THEN <<>>
    ELSE (IF Strip(lines[1]) = <<>> THEN <<>> ELSE <<bi \o Strip(lines[1])>>)
         \o BodyLines(Tail(lines), bi)

\* m.group("body").strip("\n")
StripNL(s) ==
    LET keep == {i \in 1..Len(s) : s[i] # NL}
    IN  IF keep = {} THEN <<>> ELSE SubSeq(s, MinOf(keep), MaxOf(keep))

\* _repl
Repl(m, a) ==
    LET si == Spaces(a.base_indent)
        li == Spaces(a.base_indent + a.let_indent)
        bi == Spaces(a.base_indent + a.body_indent)
        ri == Spaces(a.base_indent + a.ret_indent)
    IN  <<NL>> \o si \o <<"s","o","u","r","c","e"," ","=">> \o <<NL>>
        \o li \o <<"l","e","t">> \o <<NL>>
        \o Join(BodyLines(SplitLines(StripNL(m.body)), bi), <<NL>>) \o <<NL>>
        \o li \o <<"i","n">> \o <<NL>>
        \o ri \o Strip(m.ret)

\* pattern.sub(_repl, t) from position pos on: leftmost matches, not overlapping
RECURSIVE SubFrom(_, _, _)
SubFrom(t, pos, a) ==
    LET hits == {p \in pos..Len(t) : PatternAt(t, p).ok}
    IN  IF hits = {} THEN Tail_(t, pos)
        ELSE LET p == MinOf(hits)
                 m == PatternAt(t, p)
             IN  SubSeq(t, pos, p - 1) \o Repl(m, a) \o SubFrom(t, m.end + 1, a)

fix_m_partition_block(text, a) == SubFrom(fix_braces(text), 1, a)

\* the argparse defaults of main
PartitionArgs ==
    [tool |-> "fix_m_indent_and_braces",
     base_indent |-> 2, let_indent |-> 2, body_indent |-> 4, ret_indent |-> 4]

PartitionChunks == {
    <<"s","o","u","r","c","e"," ","=",NL,"l","e","t">>,
    <<" ","S"," ","=","{","{","1","}","}",",">>,
    <<"i","n">>,
    <<"i","n",NL," ","S">>,
    <<" ","S">>,
    <<>>,
    <<"{","{","{">>}

InitPartition ==
    /\ file \in TextsOf(PartitionChunks, MaxChunks)
    /\ args = PartitionArgs
    /\ hist = <<file>>
    /\ stdout = <<>>
    /\ status = "none"

\* process_file: the file is read, normalized and written back
PartitionFix ==
    /\ Len(hist) <= MaxRuns
    /\ file' = fix_m_partition_block(file, args)
    /\ hist' = Append(hist, file')
    /\ status' = "ok"
    /\ UNCHANGED <<args, stdout>>

NextPartition == PartitionFix

SpecPartition == InitPartition /\ [][NextPartition]_vars

\* ------------------------------------------------ polish_tables_tmdl.py
\* ^\s*kw\s*:\s*$ (IGNORECASE): RE_COL_LABEL, RE_PART_LABEL
LabelLine(ln, kw) ==
    LET x == Strip(ln)
    IN  /\ AtCI(x, 1, kw)
        /\ SkipSpace(x, Len(kw) + 1) = Len(x)
        /\ x[Len(x)] = ":"

RE_COL_LABEL(ln) == LabelLine(ln, <<"c","o","l","u","m","n","s">>)
RE_PART_LABEL(ln) == LabelLine(ln, <<"p","a","r","t","i","t","i","o","n","s">>)

\* ^\s*kw\b (IGNORECASE) on a stripped line
KeywordB(s, kw) ==
    /\ AtCI(s, 1, kw)
    /\ Len(s) = Len(kw) \/ ~IsWord(s[Len(kw) + 1])

\* ^\s*kw\s*sep (IGNORECASE) on a stripped line
KeywordSep(s, kw, sep) ==
    /\ AtCI(s, 1, kw)
    /\ At(s, SkipSpace(s, Len(kw) + 1), sep)

RE_TABLE(s) == KeywordB(s, <<"t","a","b","l","e">>)
RE_T_LINEAGE(s) == KeywordSep(s, <<"l","i","n","e","a","g","e","t","a","g">>, <<":">>)
RE_COLUMN(s) == KeywordB(s, <<"c","o","l","u","m","n">>)
RE_COL_PROP(s) ==
    \E kw \in {<<"d","a","t","a","t","y","p","e">>,
               <<"f","o","r","m","a","t","s","t","r","i","n","g">>,
               <<"l","i","n","e","a","g","e","t","a","g">>,
               <<"s","u","m","m","a","r","i","z","e","b","y">>,
               <<"s","o","u","r","c","e","c","o","l","u","m","n">>} :
        KeywordSep(s, kw, <<":">>)
RE_COL_ANN(s) == KeywordB(s, <<"a","n","n","o","t","a","t","i","o","n">>)
RE_VARIATION(s) == KeywordB(s, <<"v","a","r","i","a","t","i","o","n">>)
RE_VAR_PROP(s) ==
    \/ AtCI(s, 1, <<"i","s","d","e","f","a","u","l","t">>)
    \/ KeywordSep(s, <<"r","e","l","a","t","i","o","n","s","h","i","p">>, <<":">>)
    \/ KeywordSep(s, <<"d","e","f","a","u","l","t","h","i","e","r","a","r","c","h","y">>, <<":">>)

\* ^\s*partition\b.*=\s*m\s*$ (IGNORECASE) on a stripped line
RE_PARTITION(s) ==
    /\ KeywordB(s, <<"p","a","r","t","i","t","i","o","n">>)
    /\ Lower(s[Len(s)]) = "m"
    /\ LET r == RStrip(SubSeq(s, 1, Len(s) - 1))
       IN  Len(r) >= 10 /\ r[Len(r)] = "="

RE_MODE(s) == KeywordSep(s, <<"m","o","d","e">>, <<":">>)
RE_SOURCE(s) == KeywordSep(s, <<"s","o","u","r","c","e">>, <<"=">>)
RE_LET(s) == Len(s) = 3 /\ AtCI(s, 1, <<"l","e","t">>)
RE_IN(s) == Len(s) = 2 /\ AtCI(s, 1, <<"i","n">>)

\* ^\s*(Source\s*=|srcSource\s*=|[A-Za-z0-9_]+_object\s*=) (IGNORECASE)
RE_MLINE(s) ==
    \/ KeywordSep(s, <<"s","o","u","r","c","e">>, <<"=">>)
    \/ KeywordSep(s, <<"s","r","c","s","o","u","r","c","e">>, <<"=">>)
    \/ LET w == SkipWord(s, 1) - 1
       IN  /\ w >= 8
           /\ AtCI(s, w - 6, <<"_","o","b","j","e","c","t">>)
           /\ At(s, SkipSpace(s, w + 1), <<"=">>)

indent(level, s) == Spaces(level) \o Strip(s)

Emit(st, state, line) ==
    [state |-> state, skip |-> FALSE, out |-> Append(st.out, line)]

\* one iteration of the loop of polish_file over the raw line
PolishLine(st, raw) ==
    LET ln == RStrip(raw)
        s  == Strip(ln)
    IN  IF RE_COL_LABEL(ln) \/ RE_PART_LABEL(ln) THEN [st EXCEPT !.skip = TRUE]
        ELSE IF st.skip /\ s = <<>> THEN st
        ELSE IF s = <<>> THEN Emit(st, st.state, <<>>)
        ELSE IF RE_TABLE(s) THEN Emit(st, "root", s)
        ELSE IF st.state = "root" /\ RE_T_LINEAGE(s) THEN Emit(st, st.state, indent(2, s))
        ELSE IF RE_COLUMN(s) THEN Emit(st, "in_column", indent(2, s))
        ELSE IF RE_PARTITION(s) THEN Emit(st, "in_partition", indent(2, s))
        ELSE IF st.state = "in_column" THEN
            IF RE_VARIATION(s) THEN Emit(st, "in_variation", indent(4, s))
            ELSE IF RE_COL_PROP(s) THEN Emit(st, st.state, indent(4, s))
            ELSE IF RE_COL_ANN(s) THEN Emit(st, st.state, indent(4, s))
            ELSE Emit(st, st.state, indent(4, s))
        ELSE IF st.state = "in_variation" THEN
            IF RE_VAR_PROP(s) THEN Emit(st, st.state, indent(6, s))
            ELSE Emit(st, st.state, indent(6, s))
        ELSE IF st.state = "in_partition" THEN
            IF RE_MODE(s) \/ RE_SOURCE(s)
            THEN Emit(st, st.state,
                      indent(4, Replace(Replace(s, <<" "," ">>, <<" ">>),
                                        <<"="," "," ">>, <<"="," ">>)))
            ELSE IF RE_LET(s) \/ RE_IN(s) THEN Emit(st, st.state, indent(6, s))
            ELSE IF RE_MLINE(s) THEN Emit(st, st.state, indent(8, s))
            ELSE IF RE_COL_ANN(s) THEN Emit(st, st.state, indent(2, s))
            ELSE Emit(st, st.state, indent(6, s))
        ELSE IF RE_COL_ANN(s) THEN Emit(st, st.state, indent(2, s))
        ELSE Emit(st, st.state, s)

RECURSIVE PolishLines(_, _)
PolishLines(st, lines) ==
    IF lines = <<>> THEN st
    ELSE PolishLines(PolishLine(st, lines[1]), Tail(lines))

ResultTypeAnnotation ==
    <<"a","n","n","o","t","a","t","i","o","n"," ","P","B","I","_","R","e","s","u",
      "l","t","T","y","p","e"," ","="," ","T","a","b","l","e">>

\* polish_file with the annotation appended whether or not it is present
polish_file_AlwaysAppend(text) ==
    LET st == PolishLines([state |-> "root", skip |-> FALSE, out |-> <<>>],
                          SplitLines(text))
        body == RStrip(Join(st.out, <<NL>>))
    IN  body \o <<NL, NL, " ", " ">> \o ResultTypeAnnotation \o <<NL>>

\* polish_file: the text written for the text read
polish_file(text) ==
    LET st == PolishLines([state |-> "root", skip |-> FALSE, out |-> <<>>],
                          SplitLines(text))
        body == RStrip(Join(st.out, <<NL>>))
    IN  (IF Contains(body, ResultTypeAnnotation) THEN body
         ELSE body \o <<NL, NL, " ", " ">> \o ResultTypeAnnotation)
        \o <<NL>>

TableChunks == {
    <<"t","a","b","l","e"," ","T">>,
    <<"c","o","l","u","m","n"," ","A",NL," ","d","a","t","a","T","y","p","e",":"," ","s","t","r","i","n","g">>,
    <<"v","a","r","i","a","t","i","o","n"," ","V",NL,"i","s","D","e","f","a","u","l","t">>,
    <<"p","a","r","t","i","t","i","o","n"," ","T"," ","="," ","m",NL,"m","o","d","e",":"," "," "," "," ","i","m","p","o","r","t">>,
    <<"s","o","u","r","c","e"," ","=",NL,"l","e","t",NL,"S"," ","="," ","1",NL,"i","n",NL,"S">>,
    <<" "," ","a","n","n","o","t","a","t","i","o","n"," ","P","B","I","_","R","e","s","u","l","t","T","y","p","e"," ","="," ","T","a","b","l","e">>,
    <<"c","o","l","u","m","n","s",":">>,
    <<"s","u","m","m","a","r","i","z","e","B","y",":"," ","n","o","n","e">>,
    <<>>}

InitTables ==
    /\ file \in TextsOf(TableChunks, MaxChunks)
    /\ args = [tool |-> "polish_tables_tmdl"]
    /\ hist = <<file>>
    /\ stdout = <<>>
    /\ status = "none"

\* polish_file on one table document: read, polish, write
PolishTable ==
    /\ Len(hist) <= MaxRuns
    /\ file' = polish_file(file)
    /\ hist' = Append(hist, file')
    /\ status' = "ok"
    /\ UNCHANGED <<args, stdout>>

NextTables == PolishTable

SpecTables == InitTables /\ [][NextTables]_vars

\* ----------------------------------------- polish_relationships_tmdl.py
\* WRAPPER_LINE: ^\s*relationships\s*:?\s*$ (IGNORECASE)
WRAPPER_LINE(line) ==
    LET x == Strip(line)
        kw == <<"r","e","l","a","t","i","o","n","s","h","i","p","s">>
    IN  \/ Len(x) = Len(kw) /\ AtCI(x, 1, kw)
        \/ /\ AtCI(x, 1, kw)
           /\ SkipSpace(x, Len(kw) + 1) = Len(x)
           /\ x[Len(x)] = ":"

\* BLOCK_START: ^\s*relationship\b (IGNORECASE)
BLOCK_START(line) ==
    KeywordB(LStrip(line), <<"r","e","l","a","t","i","o","n","s","h","i","p">>)

\* REL_NAME_QUOTED: ^(\s*relationship)\s+'([^']+)'\s* (IGNORECASE); the line
\* is replaced by group(1) + " " + group(2)
Unquote(line) ==
    LET a == SkipSpace(line, 1)
        b == a + 12
        c == SkipSpace(line, b)
        close == {q \in (c + 2)..Len(line) : line[q] = "'"}
    IN  IF /\ AtCI(line, a, <<"r","e","l","a","t","i","o","n","s","h","i","p">>)
           /\ c > b
           /\ At(line, c, <<"'">>)
           /\ ~At(line, c + 1, <<"'">>)
           /\ close # {}
        THEN SubSeq(line, 1, b - 1) \o <<" ">> \o SubSeq(line, c + 1, MinOf(close) - 1)
        ELSE line

\* lines with the leading blank lines dropped
RECURSIVE DropLeadingBlank(_)
DropLeadingBlank(lines) ==
    IF lines # <<>> /\ Strip(lines[1]) = <<>> THEN DropLeadingBlank(Tail(lines))
    ELSE lines

strip_wrapper_and_unquote(text) ==
    LET l0 == DropLeadingBlank(SplitLines(text))
        l1 == IF l0 # <<>> /\ WRAPPER_LINE(l0[1])
              THEN IF Len(l0) >= 2 /\ Strip(l0[2]) = <<>>
                   THEN SubSeq(l0, 3, Len(l0))
                   ELSE Tail(l0)
              ELSE l0
    IN  Join([i \in 1..Len(l1) |-> Unquote(l1[i])], <<NL>>)

\* FROM_LINE / TO_LINE: ^\s*kw\s*(.+)$ (IGNORECASE), kw in lower case
ColLineMatch(ln, kw) ==
    LET a == SkipSpace(ln, 1)
    IN  AtCI(ln, a, kw) /\ a + Len(kw) <= Len(ln)

\* m.group(1).strip() of the last line of the block that matches, "" if none
RECURSIVE LastColValue(_, _, _)
LastColValue(lines, kw, cur) ==
    IF lines = <<>> THEN cur
    ELSE LastColValue(Tail(lines), kw,
            IF ColLineMatch(lines[1], kw)
            THEN Strip(Tail_(lines[1], SkipSpace(lines[1], 1) + Len(kw)))
            ELSE cur)

\* parse_blocks on the lines from position i on
RECURSIVE ParseFrom(_, _)
ParseFrom(lines, i) ==
    IF i > Len(lines) THEN <<>>
    ELSE IF ~BLOCK_START(lines[i]) THEN ParseFrom(lines, i + 1)
    ELSE LET stop == MinOf({j \in (i + 1)..(Len(lines) + 1) :
                            j > Len(lines) \/ BLOCK_START(lines[j])})
             block == Strip(Join(SubSeq(lines, i, stop - 1), <<NL>>)) \o <<NL>>
         IN  <<[block |-> block,
                from_col |-> LastColValue(SplitLines(block),
                                <<"f","r","o","m","c","o","l","u","m","n",":">>, <<>>),
                to_col |-> LastColValue(SplitLines(block),
                                <<"t","o","c","o","l","u","m","n",":">>, <<>>)]>>
             \o ParseFrom(lines, stop)

parse_blocks(text) == ParseFrom(SplitLines(text), 1)

\* SUFFIX_PAREN.sub("", s) with SUFFIX_PAREN = \s*\([^)]*\)\s*$
SUFFIX_PAREN_sub(s) ==
    LET r == RStrip(s)
        e == Len(r)
        opens == {q \in 1..(e - 1) :
                    s[q] = "(" /\ \A i \in (q + 1)..(e - 1) : s[i] # ")"}
    IN  IF e >= 2 /\ s[e] = ")" /\ opens # {}
        THEN LET q == MinOf(opens)
                 p == MinOf({i \in 1..q : \A j \in i..(q - 1) : IsSpace(s[j])})
             IN  SubSeq(s, 1, p - 1)
        ELSE s

\* position of the first c in s, Len(s)+1 if there is none
FirstOf(s, c) == MinOf({i \in 1..(Len(s) + 1) : i > Len(s) \/ s[i] = c})

norm_col(s0) ==
    LET s == SUFFIX_PAREN_sub(Strip(s0))
    IN  IF FirstOf(s, "[") <= Len(s) /\ FirstOf(s, "]") <= Len(s)
        THEN LET table == Strip(SubSeq(s, 1, FirstOf(s, "[") - 1))
                 rest  == Tail_(s, FirstOf(s, "[") + 1)
                 col   == Strip(SubSeq(rest, 1, FirstOf(rest, "]") - 1))
             IN  table \o <<".">> \o SUFFIX_PAREN_sub(col)
        ELSE SUFFIX_PAREN_sub(Replace(s, <<" ">>, <<>>))

\* fmt of rewrite_from_to; x.split(".", 1) needs a "." to unpack two values
fmt_ok(x) == FirstOf(x, ".") <= Len(x)

fmt(x, style) ==
    LET table == SubSeq(x, 1, FirstOf(x, ".") - 1)
        col   == Tail_(x, FirstOf(x, ".") + 1)
    IN  IF style = "dot" THEN table \o <<".">> \o col
        ELSE table \o <<"[">> \o col \o <<"]">>

\* re.sub(r"(?m)^\s*kw\s*.*$", new, block) from position pos on
RECURSIVE SubColLine(_, _, _, _)
SubColLine(block, pos, kw, new) ==
    LET hits == {p \in pos..Len(block) :
                   /\ p = 1 \/ block[p - 1] = NL
                   /\ At(block, SkipSpace(block, p), kw)}
    IN  IF hits = {} THEN Tail_(block, pos)
        ELSE LET p == MinOf(hits)
                 e == LineEnd(block, SkipSpace(block, SkipSpace(block, p) + Len(kw)))
             IN  SubSeq(block, pos, p - 1) \o new \o SubColLine(block, e, kw, new)

rewrite_from_to(block, from_norm, to_norm, style) ==
    SubColLine(
        SubColLine(block, 1, <<"f","r","o","m","C","o","l","u","m","n",":">>,
                   <<" "," ","f","r","o","m","C","o","l","u","m","n",":"," ">>
                       \o fmt(from_norm, style)),
        1, <<"t","o","C","o","l","u","m","n",":">>,
        <<" "," ","t","o","C","o","l","u","m","n",":"," ">> \o fmt(to_norm, style))

\* str.split(c)
RECURSIVE Split(_, _)
Split(s, c) ==
    IF FirstOf(s, c) > Len(s) THEN <<s>>
    ELSE <<SubSeq(s, 1, FirstOf(s, c) - 1)>> \o Split(Tail_(s, FirstOf(s, c) + 1), c)

\* wanted_pairs without the line "either direction"
wanted_pairs_OneWay(keep) ==
    IF Strip(keep) = <<>> THEN {}
    ELSE LET items == Split(keep, ",")
             good == {i \in 1..Len(items) : FirstOf(items[i], "=") <= Len(items[i])}
             left(i) == norm_col(SubSeq(items[i], 1, FirstOf(items[i], "=") - 1))
             right(i) == norm_col(Tail_(items[i], FirstOf(items[i], "=") + 1))
         IN  {<<left(i), right(i)>> : i \in good}

\* main, "Parse desired pairs": the set wanted_pairs
wanted_pairs(keep) ==
    IF Strip(keep) = <<>> THEN {}
    ELSE LET items == Split(keep, ",")
             good == {i \in 1..Len(items) : FirstOf(items[i], "=") <= Len(items[i])}
             left(i) == norm_col(SubSeq(items[i], 1, FirstOf(items[i], "=") - 1))
             right(i) == norm_col(Tail_(items[i], FirstOf(items[i], "=") + 1))
         IN  {<<left(i), right(i)>> : i \in good} \cup {<<right(i), left(i)>> : i \in good}

\* Decide with the two tests in the other order: the allow-list has the last
\* word
Decide_KeepWins(b, wanted, a) ==
    LET f == norm_col(b.from_col)
        t == norm_col(b.to_col)
        ldt == <<"L","o","c","a","l","D","a","t","e","T","a","b","l","e">>
        has_local == Contains(f, ldt) \/ Contains(t, ldt)
    IN  [block |-> b.block, f |-> f, t |-> t,
         keep |-> IF wanted # {} THEN <<f, t>> \in wanted
                  ELSE ~(a.drop_localdatetable /\ has_local)]

\* main, the loop body up to the decision: the normalized pair and keep
Decide(b, wanted, a) ==
    LET f == norm_col(b.from_col)
        t == norm_col(b.to_col)
        ldt == <<"L","o","c","a","l","D","a","t","e","T","a","b","l","e">>
        has_local == Contains(f, ldt) \/ Contains(t, ldt)
    IN  [block |-> b.block, f |-> f, t |-> t,
         keep |-> /\ wanted # {} => <<f, t>> \in wanted
                  /\ ~(a.drop_localdatetable /\ has_local)]

\* the printable ASCII characters of the modelled alphabet in code point order
\* (the double quote, the backslash and the backquote are outside the alphabet)
Ascii == <<" ","!","#","$","%","&","'","(",")","*","+",",","-",".","/",
           "0","1","2","3","4","5","6","7","8","9",":",";","<","=",">","?","@",
           "A","B","C","D","E","F","G","H","I","J","K","L","M","N","O","P","Q",
           "R","S","T","U","V","W","X","Y","Z","[","]","^","_",
           "a","b","c","d","e","f","g","h","i","j","k","l","m","n","o","p","q",
           "r","s","t","u","v","w","x","y","z","{","|","}","~">>

\* str < str
RECURSIVE StrLess(_, _)
StrLess(x, y) ==
    IF y = <<>> THEN FALSE
    ELSE IF x = <<>> THEN TRUE
    ELSE IF x[1] = y[1] THEN StrLess(Tail(x), Tail(y))
    ELSE (CHOOSE i \in 1..Len(Ascii) : Ascii[i] = x[1])
           < (CHOOSE i \in 1..Len(Ascii) : Ascii[i] = y[1])

\* sorted(pairs) for a set of pairs of strings
RECURSIVE SortedPairs(_)
SortedPairs(S) ==
    IF S = {} THEN <<>>
    ELSE LET m == CHOOSE x \in S : \A y \in S \ {x} :
                     StrLess(x[1], y[1]) \/ (x[1] = y[1] /\ StrLess(x[2], y[2]))
         IN  <<m>> \o SortedPairs(S \ {m})

\* the items of seq that satisfy keep = flag, in order
SelectKeep(recs, flag) == SelectSeq(recs, LAMBDA r : r.keep = flag)

\* one printed line for a pair
PairLine(pre, r, mid) == pre \o r.f \o mid \o r.t

\* main, "if not out_blocks": the diagnostics and SystemExit(1); nothing is
\* written
ErrorExit(raw, recs, wanted) ==
    [status |-> "exit1", file |-> raw,
     stdout |->
       <<<<"[","E","R","R","O","R","]"," ","A","l","l"," ","r","e","l","a","t","i","o","n","s","h","i","p","s"," ","w","o","u","l","d"," ","b","e"," ","r","e","m","o","v","e","d",".">>>>
       \o (IF recs = <<>> THEN <<>>
           ELSE <<<<"D","e","t","e","c","t","e","d"," ","p","a","i","r","s"," ","i","n"," ","y","o","u","r"," ","f","i","l","e"," ","(","u","s","e"," ","t","h","e","s","e"," ","i","n"," ","-","-","k","e","e","p",")",":">>>>
                \o [i \in 1..Len(recs) |-> PairLine(<<" "," ">>, recs[i], <<"=">>)])
       \o (IF wanted = {} THEN <<>>
           ELSE <<<<"Y","o","u","r"," ","-","-","k","e","e","p"," ","n","o","r","m","a","l","i","z","e","d"," ","t","o",":">>>>
                \o [i \in 1..Cardinality(wanted) |->
                      <<" "," ">> \o SortedPairs(wanted)[i][1] \o <<"=">>
                      \o SortedPairs(wanted)[i][2]])]

\* main, from rel_path.write_text on: the file written and the report printed
\* (the check mark that starts the first line is written OK)
WriteOut(kept, dropped, a) ==
    [status |-> "ok",
     file |-> Join([i \in 1..Len(kept) |->
                      rewrite_from_to(Strip(kept[i].block), kept[i].f,
                                      kept[i].t, a.style)],
                   <<NL, NL>>) \o <<NL>>,
     stdout |->
       <<<<"OK"," ","r","e","l","a","t","i","o","n","s","h","i","p","s",".","t","m","d","l"," ","p","o","l","i","s","h","e","d">>,
         <<" ","K","e","p","t",":">>>>
       \o [i \in 1..Len(kept) |-> PairLine(<<" "," ","-"," ">>, kept[i], <<" ","-",">"," ">>)]
       \o (IF dropped = <<>> THEN <<>>
           ELSE <<<<" ","D","r","o","p","p","e","d",":">>>>
                \o [i \in 1..Len(dropped) |->
                      PairLine(<<" "," ","-"," ">>, dropped[i], <<" ","-",">"," ">>)])]

\* main, the loop over parse_blocks: every block with its pair and decision
Decisions(raw, a) ==
    LET blocks == parse_blocks(strip_wrapper_and_unquote(raw))
        wanted == wanted_pairs(a.keep)
    IN  [i \in 1..Len(blocks) |-> Decide(blocks[i], wanted, a)]

\* main without the "if not out_blocks" exit: an empty result is written too
polish_relationships_NoGuard(raw, a) ==
    LET recs == Decisions(raw, a)
        kept == SelectKeep(recs, TRUE)
    IN  IF \E i \in 1..Len(kept) : ~fmt_ok(kept[i].f) \/ ~fmt_ok(kept[i].t)
        THEN [status |-> "ValueError", file |-> raw, stdout |-> <<>>]
        ELSE WriteOut(kept, SelectKeep(recs, FALSE), a)

\* main from "raw = rel_path.read_text" on: how the run ends, what it leaves
\* in relationships.tmdl and what it prints; fmt raises ValueError in the loop
\* at the first kept block whose pair has an endpoint without "."
polish_relationships(raw, a) ==
    LET recs == Decisions(raw, a)
        kept == SelectKeep(recs, TRUE)
    IN  IF \E i \in 1..Len(kept) : ~fmt_ok(kept[i].f) \/ ~fmt_ok(kept[i].t)
        THEN [status |-> "ValueError", file |-> raw, stdout |-> <<>>]
        ELSE IF kept = <<>> THEN ErrorExit(raw, recs, wanted_pairs(a.keep))
        ELSE WriteOut(kept, SelectKeep(recs, FALSE), a)

MaxBlocks == 2

RelBlocks == {
    <<"r","e","l","a","t","i","o","n","s","h","i","p"," ","r","1",NL," "," ","f","r","o","m","C","o","l","u","m","n",":"," ","A","[","x"," ","(","A",")","]",NL," "," ","t","o","C","o","l","u","m","n",":"," ","B",".","y">>,
    <<"r","e","l","a","t","i","o","n","s","h","i","p"," ","'","r","2","'",NL," "," ","f","r","o","m","C","o","l","u","m","n",":"," ","B",".","y",NL," "," ","t","o","C","o","l","u","m","n",":"," ","A",".","x">>,
    <<"r","e","l","a","t","i","o","n","s","h","i","p"," ","r","3",NL," "," ","f","r","o","m","C","o","l","u","m","n",":"," ","A","[","x"," ","y"," ","(","A",")","]",NL," "," ","t","o","C","o","l","u","m","n",":"," ","B",".","y">>,
    <<"r","e","l","a","t","i","o","n","s","h","i","p"," ","r","4",NL," "," ","f","r","o","m","C","o","l","u","m","n",":"," ","x"," ","(","A",")",NL," "," ","t","o","C","o","l","u","m","n",":"," ","B",".","y">>,
    <<"r","e","l","a","t","i","o","n","s","h","i","p"," ","r","5",NL," "," ","t","o","C","o","l","u","m","n",":"," ","B",".","y">>,
    <<"r","e","l","a","t","i","o","n","s","h","i","p"," ","r","6",NL," "," ","f","r","o","m","C","o","l","u","m","n",":"," ","L","o","c","a","l","D","a","t","e","T","a","b","l","e",".","d",NL," "," ","t","o","C","o","l","u","m","n",":"," ","A",".","x">>,
    <<"r","e","l","a","t","i","o","n","s","h","i","p"," ","r","7","\n"," "," ","f","r","o","m","C","o","l","u","m","n",":"," ","A",".","L","o","c","a","l","D","a","t","e","T","a","b","l","e","\n"," "," ","t","o","C","o","l","u","m","n",":"," ","B",".","y">>}

RelWrappers == {<<>>, <<"r","e","l","a","t","i","o","n","s","h","i","p","s",":",NL>>}

RelKeeps == {
    <<>>,
    <<"A",".","x","=","B",".","y">>,
    <<"B",".","y","=","A",".","x">>,
    <<"A",".","x">>,
    <<"L","o","c","a","l","D","a","t","e","T","a","b","l","e",".","d","=","A",".","x",",","A",".","x","=","B",".","y">>}

InitRels ==
    /\ file \in {w \o Join(bs, <<NL, NL>>) :
                   w \in RelWrappers,
                   bs \in UNION {[1..k -> RelBlocks] : k \in 0..MaxBlocks}}
    /\ args \in [tool : {"polish_relationships_tmdl"}, keep : RelKeeps,
                 drop_localdatetable : BOOLEAN, style : {"dot", "bracket"}]
    /\ hist = <<file>>
    /\ stdout = <<>>
    /\ status = "none"

\* a run that keeps at least one relationship: relationships.tmdl is rewritten
PolishRelsWrite(r) ==
    /\ r.status = "ok"
    /\ file' = r.file
    /\ stdout' = r.stdout
    /\ status' = "ok"
    /\ hist' = Append(hist, r.file)
    /\ UNCHANGED args

\* a run in which every relationship is dropped: diagnostics, exit status 1
PolishRelsExit(r) ==
    /\ r.status = "exit1"
    /\ stdout' = r.stdout
    /\ status' = "exit1"
    /\ hist' = Append(hist, file)
    /\ UNCHANGED <<file, args>>

\* a run that ends in the ValueError raised by fmt
PolishRelsRaise(r) ==
    /\ r.status = "ValueError"
    /\ stdout' = r.stdout
    /\ status' = "ValueError"
    /\ hist' = Append(hist, file)
    /\ UNCHANGED <<file, args>>

NextRels ==
    /\ Len(hist) <= MaxRuns
    /\ \E r \in {polish_relationships(file, args)} :
          PolishRelsWrite(r) \/ PolishRelsExit(r) \/ PolishRelsRaise(r)

SpecRels == InitRels /\ [][NextRels]_vars

\* ------------------------------------------------------- pbip_integrate.py
\* A value read by yaml.safe_load is [t |-> "str", v |-> text], [t |-> "int",
\* v |-> digits] or [t |-> "null"]; a mapping is a function from keys to values.
StrVal(s) == [t |-> "str", v |-> s]
NullVal == [t |-> "null"]

\* str(value)
PyStr(val) == IF val.t = "null" THEN <<"N","o","n","e">> ELSE val.v

\* bool(value) is False
Falsy(val) ==
    \/ val.t = "null"
    \/ val.t = "str" /\ val.v = <<>>
    \/ val.t = "int" /\ val.v = <<"0">>

\* dict.get(key, default)
Get(m, key, default) == IF key \in DOMAIN m THEN m[key] ELSE default

\* _fmt_ident: quoted when the name has a character outside \w
fmt_ident(name) ==
    IF \E i \in 1..Len(name) : ~IsWord(name[i])
    THEN <<"'">> \o name \o <<"'">>
    ELSE name

\* re.fullmatch(r"\d+", s)
AllDigits(s) ==
    /\ s # <<>>
    /\ \A i \in 1..Len(s) : s[i] \in {"0","1","2","3","4","5","6","7","8","9"}

\* render_columns_tmdl_block, loop body: the lines of one column, none when
\* the name is empty
ColumnLines(col) ==
    LET name == Strip(PyStr(Get(col, "name", StrVal(<<>>))))
        dt   == Strip(PyStr(Get(col, "dataType", StrVal(<<"s","t","r","i","n","g">>))))
        sv   == Get(col, "summarizeBy", StrVal(<<>>))
        summ == IF Falsy(sv) THEN <<>> ELSE Strip(PyStr(sv))
        src  == Strip(PyStr(Get(col, "sourceColumn", StrVal(name))))
        fmt_ == Get(col, "formatString", NullVal)
    IN  IF name = <<>> THEN <<>>
        ELSE <<<<" "," "," "," ","c","o","l","u","m","n"," ">> \o fmt_ident(name),
               <<" "," "," "," ","{">>,
               <<" "," "," "," "," "," ","d","a","t","a","T","y","p","e",":"," ">> \o dt>>
             \o (IF summ # <<>> /\ ~(Len(summ) = 4 /\ AtCI(summ, 1, <<"n","o","n","e">>))
                 THEN <<<<" "," "," "," "," "," ","s","u","m","m","a","r","i","z","e","B","y",":"," ">> \o summ>> ELSE <<>>)
             \o <<<<" "," "," "," "," "," ","s","o","u","r","c","e","C","o","l","u","m","n",":"," ">> \o fmt_ident(src)>>
             \o (IF fmt_.t # "null" /\ Strip(PyStr(fmt_)) # <<>>
                 THEN IF AllDigits(PyStr(fmt_))
                      THEN <<<<" "," "," "," "," "," ","f","o","r","m","a","t","S","t","r","i","n","g",":"," ">> \o PyStr(fmt_)>>
                      ELSE <<<<" "," "," "," "," "," ","f","o","r","m","a","t","S","t","r","i","n","g",":"," ","\"">> \o PyStr(fmt_) \o <<"\"">>>>
                 ELSE <<>>)
             \o <<<<" "," "," "," ","}">>>>

\* the lines of all columns in order
RECURSIVE AllColumnLines(_)
AllColumnLines(columns) ==
    IF columns = <<>> THEN <<>>
    ELSE ColumnLines(columns[1]) \o AllColumnLines(Tail(columns))

\* load_columns_from_boss_style returns either the sentinel
\* [raw |-> text] or the list [list |-> mappings]
IsRaw(cols) == "raw" \in DOMAIN cols

render_columns_tmdl_block(cols) ==
    IF IsRaw(cols) THEN Strip(cols.raw)
    ELSE Join(<<<<" "," ","c","o","l","u","m","n","s"," ","{">>>> \o AllColumnLines(cols.list) \o <<<<" "," ","}">>>>,
              <<NL>>)

\* the lines of body, each behind two spaces and right-stripped
IndentTwo(lines) == [i \in 1..Len(lines) |-> <<" ", " ">> \o RStrip(lines[i])]

render_partition_block_tmdl(partition_text, table) ==
    <<" "," ","p","a","r","t","i","t","i","o","n","s"," ","{","\n">>
    \o Join(IndentTwo(SplitLines(Strip(partition_text))), <<NL>>)
    \o <<"\n"," "," ","}">>

render_table_tmdl(table, cols, partition_text) ==
    LET parts_block == render_partition_block_tmdl(partition_text, table)
        raw == Strip(cols.raw)
    IN  IF IsRaw(cols) /\ AtCI(raw, 1, <<"t","a","b","l","e">>)
                       /\ Len(raw) >= 6 /\ IsSpace(raw[6])
        THEN RStrip(raw) \o <<NL>> \o parts_block \o <<NL>>
        ELSE Join(<<<<"t","a","b","l","e"," ">> \o fmt_ident(table), <<"{">>,
                    IF IsRaw(cols) THEN raw ELSE render_columns_tmdl_block(cols),
                    parts_block, <<"}">>>>, <<NL>>) \o <<NL>>

\* load_columns_from_boss_style for a columns file [text, data], where data
\* is what yaml.safe_load returns for the text: [kind |-> "list", items |-> ..]
\* or a value of another kind; an item is [kind |-> "map", m |-> mapping] or
\* of another kind.  yaml says whether PyYAML is installed.
load_columns_from_boss_style(f, yaml) ==
    LET text == Strip(f.text)
        named == IF f.data.kind = "list"
                 THEN SelectSeq(f.data.items,
                        LAMBDA it : it.kind = "map" /\ "name" \in DOMAIN it.m)
                 ELSE <<>>
    IN  IF AtCI(text, 1, <<"t","a","b","l","e">>) \/ AtCI(text, 1, <<"c","o","l","u","m","n">>)
        THEN [status |-> "ok", cols |-> [raw |-> text]]
        ELSE IF ~yaml THEN [status |-> "RuntimeError"]
        ELSE IF f.data.kind # "list" \/ named = <<>> THEN [status |-> "ValueError"]
        ELSE [status |-> "ok",
              cols |-> [list |-> [i \in 1..Len(named) |-> named[i].m]]]

\* ensure_pbip_scaffold: the texts written for files that do not exist
ScaffoldModel == <<"m","o","d","e","l","\n","{","\n"," "," ","c","u","l","t","u","r","e",":"," ","\"","e","n","-","U","S","\"","\n"," "," ","t","a","b","l","e","s",":"," ","{","\n"," "," ","}","\n","}","\n">>
ScaffoldRels == <<"r","e","l","a","t","i","o","n","s","h","i","p","s","\n","{","\n","}","\n">>

\* position of the first occurrence of lit in s from p on, Len(s)+1 if none
RECURSIVE Find(_, _, _)
Find(s, p, lit) ==
    IF p > Len(s) THEN Len(s) + 1
    ELSE IF At(s, p, lit) THEN p
    ELSE Find(s, p + 1, lit)

\* re.search(r"(tables\s*:\s*\{\s*)(.*?)(\s*\})", text, flags=re.S) from p on:
\* [ok, p, s1, e, q] with group 1 = text[p..s1-1], group 2 = text[s1..e-1],
\* group 3 = text[e..q]
RECURSIVE TablesBlock(_, _)
TablesBlock(text, p0) ==
    LET p == Find(text, p0, <<"t","a","b","l","e","s">>)
        c == SkipSpace(text, p + 6)
        b == SkipSpace(text, c + 1)
        s1 == SkipSpace(text, b + 1)
        q == Find(text, s1, <<"}">>)
        e == SkipSpaceBack(text, q - 1) + 1
    IN  IF p > Len(text) THEN [ok |-> FALSE]
        ELSE IF At(text, c, <<":">>) /\ At(text, b, <<"{">>) /\ q <= Len(text)
             THEN [ok |-> TRUE, p |-> p, s1 |-> s1,
                   e |-> IF e < s1 THEN s1 ELSE e, q |-> q]
             ELSE TablesBlock(text, p + 1)

\* re.sub(r"model\s*\{", repl, text, count=1)
RECURSIVE SubModelBrace(_, _, _)
SubModelBrace(text, p0, repl) ==
    LET p == Find(text, p0, <<"m","o","d","e","l">>)
        b == SkipSpace(text, p + 5)
    IN  IF p > Len(text) THEN text
        ELSE IF At(text, b, <<"{">>)
             THEN SubSeq(text, 1, p - 1) \o repl \o Tail_(text, b + 1)
             ELSE SubModelBrace(text, p + 1, repl)

\* ensure_ref_table on the text of an existing model.tmdl: the text it leaves
ensure_ref_table(text, table) ==
    LET ref_line == <<"r","e","f"," ","t","a","b","l","e"," ">> \o fmt_ident(table)
        m == TablesBlock(text, 1)
        injected == SubModelBrace(text, 1,
                        <<"m","o","d","e","l","\n","{","\n"," "," ","t","a","b","l","e","s",":"," ","{","\n"," "," "," "," ">> \o ref_line \o <<"\n"," "," ","}">>)
    IN  IF Contains(text, ref_line) THEN text
        ELSE IF m.ok
        THEN SubSeq(text, 1, m.s1 - 1)
             \o RStrip(SubSeq(text, m.s1, m.e - 1) \o <<"\n"," "," "," "," ">> \o ref_line)
             \o Tail_(text, m.e)
        ELSE IF injected # text THEN injected
        ELSE <<"m","o","d","e","l","\n","{","\n"," "," ","c","u","l","t","u","r","e",":"," ","\"","e","n","-","U","S","\"","\n"," "," ","t","a","b","l","e","s",":"," ","{","\n"," "," "," "," ">>
             \o ref_line \o <<"\n"," "," ","}","\n","}","\n">>

\* str.strip("[]")
RECURSIVE StripBrackets(_)
StripBrackets(s) ==
    IF s # <<>> /\ s[1] \in {"[", "]"} THEN StripBrackets(Tail(s))
    ELSE IF s # <<>> /\ s[Len(s)] \in {"[", "]"}
         THEN StripBrackets(SubSeq(s, 1, Len(s) - 1))
         ELSE s

\* id2cap.get(id): the caption of the last object with this id among the
\* objects that have an id and a caption; <<>> stands for None
RECURSIVE Id2Cap(_, _)
Id2Cap(objects, id) ==
    IF objects = <<>> \/ id = <<>> THEN <<>>
    ELSE LET o == objects[Len(objects)]
         IN  IF o.id = id /\ o.caption # <<>> THEN o.caption
             ELSE Id2Cap(SubSeq(objects, 1, Len(objects) - 1), id)

\* parse_relationships_from_xml, first loop: rels_out.  A relationship element
\* is [eq, parts, first, second]: whether it has an expression with op "=",
\* the op attributes of that expression's children, and the object ids of its
\* two end points (<<>> where the attribute or the element is missing)
RECURSIVE RelsOut(_, _)
RelsOut(objects, rels) ==
    IF rels = <<>> THEN <<>>
    ELSE LET r == rels[1]
             left_col == StripBrackets(r.parts[1])
             right_col == StripBrackets(r.parts[2])
             left_tab == Id2Cap(objects, r.first)
             right_tab == Id2Cap(objects, r.second)
         IN  (IF r.eq /\ Len(r.parts) = 2
                 /\ left_tab # <<>> /\ right_tab # <<>>
                 /\ left_col # <<>> /\ right_col # <<>>
              THEN <<[left_table |-> left_tab, left_column |-> left_col,
                      right_table |-> right_tab, right_column |-> right_col]>>
              ELSE <<>>)
             \o RelsOut(objects, Tail(rels))

\* parse_relationships_from_xml, "dedupe": first occurrences, in order
RECURSIVE Dedupe(_, _)
Dedupe(rels, seen) ==
    IF rels = <<>> THEN <<>>
    ELSE IF rels[1] \in seen THEN Dedupe(Tail(rels), seen)
    ELSE <<rels[1]>> \o Dedupe(Tail(rels), seen \cup {rels[1]})

parse_relationships_from_xml(xml) == Dedupe(RelsOut(xml.objects, xml.rels), {})

\* render_relationships_tmdl, loop body
RelLines(r) ==
    <<<<" "," ","r","e","l","a","t","i","o","n","s","h","i","p"," ","'">> \o r.left_table \o <<"_">> \o r.left_column \o <<"_","_">>
        \o r.right_table \o <<"_">> \o r.right_column \o <<"'">>,
      <<" "," ","{">>,
      <<" "," "," "," ","f","r","o","m","C","o","l","u","m","n",":"," ">> \o fmt_ident(r.left_table) \o <<".","'">> \o r.left_column \o <<"'">>,
      <<" "," "," "," ","t","o","C","o","l","u","m","n",":"," ">> \o fmt_ident(r.right_table) \o <<".","'">> \o r.right_column \o <<"'">>,
      <<" "," "," "," ","c","r","o","s","s","F","i","l","t","e","r","i","n","g","B","e","h","a","v","i","o","r",":"," ","o","n","e","D","i","r","e","c","t","i","o","n">>,
      <<" "," ","}">>>>

RECURSIVE AllRelLines(_)
AllRelLines(rels) ==
    IF rels = <<>> THEN <<>> ELSE RelLines(rels[1]) \o AllRelLines(Tail(rels))

render_relationships_tmdl(rels) ==
    Join(<<<<"r","e","l","a","t","i","o","n","s","h","i","p","s">>, <<"{">>>> \o AllRelLines(rels) \o <<<<"}">>>>, <<NL>>)
    \o <<NL>>

\* pbip_integrate with relationships.tmdl generated before the columns are
\* loaded
pbip_integrate_RelsFirst(f, xml, yaml, table, columns_file, partition_text) ==
    LET out == IF f.exists THEN f
               ELSE [exists |-> TRUE, tables |-> f.tables,
                     model |-> ScaffoldModel, rels |-> ScaffoldRels]
        loaded == load_columns_from_boss_style(columns_file, yaml)
        table_tmdl == render_table_tmdl(table, loaded.cols, partition_text)
    IN  IF loaded.status # "ok"
        THEN [status |-> loaded.status,
              file |-> [out EXCEPT !.rels = render_relationships_tmdl(
                                                parse_relationships_from_xml(xml))],
              stdout |-> <<>>]
        ELSE [status |-> "ok",
              file |-> [exists |-> TRUE,
                        tables |-> [t \in DOMAIN out.tables \cup {table} |->
                                      IF t = table THEN table_tmdl
                                      ELSE out.tables[t]],
                        model |-> ensure_ref_table(out.model, table),
                        rels |-> render_relationships_tmdl(
                                     parse_relationships_from_xml(xml))],
              stdout |-> <<<<"OK">> \o <<" ","I","n","t","e","g","r","a","t","e","d"," ","t","a","b","l","e",":"," ">> \o table,
                           <<" "," ","-"," ","S","e","m","a","n","t","i","c","M","o","d","e","l","/","d","e","f","i","n","i","t","i","o","n","/","t","a","b","l","e","s","/">> \o table \o <<".","t","m","d","l">>,
                           <<" "," ","-"," ","S","e","m","a","n","t","i","c","M","o","d","e","l","/","d","e","f","i","n","i","t","i","o","n","/","m","o","d","e","l",".","t","m","d","l">>,
                           <<" "," ","-"," ","S","e","m","a","n","t","i","c","M","o","d","e","l","/","d","e","f","i","n","i","t","i","o","n","/","r","e","l","a","t","i","o","n","s","h","i","p","s",".","t","m","d","l">>>>]

\* main of pbip_integrate.py for one command line: how the run ends, the
\* definition folder it leaves and what it prints.  f is the folder before
\* the run: [exists, tables, model, rels] with tables a function from table
\* name to document; the template is taken to hold no model or relationships
\* document of its own, so a new folder gets the scaffold texts.  Printed
\* paths are written relative to the output folder, the check mark as "OK".
pbip_integrate(f, xml, yaml, table, columns_file, partition_text) ==
    LET out == IF f.exists THEN f
               ELSE [exists |-> TRUE, tables |-> f.tables,
                     model |-> ScaffoldModel, rels |-> ScaffoldRels]
        loaded == load_columns_from_boss_style(columns_file, yaml)
        table_tmdl == render_table_tmdl(table, loaded.cols, partition_text)
    IN  IF loaded.status # "ok"
        THEN [status |-> loaded.status, file |-> out, stdout |-> <<>>]
        ELSE [status |-> "ok",
              file |-> [exists |-> TRUE,
                        tables |-> [t \in DOMAIN out.tables \cup {table} |->
                                      IF t = table THEN table_tmdl
                                      ELSE out.tables[t]],
                        model |-> ensure_ref_table(out.model, table),
                        rels |-> render_relationships_tmdl(
                                     parse_relationships_from_xml(xml))],
              stdout |-> <<<<"OK">> \o <<" ","I","n","t","e","g","r","a","t","e","d"," ","t","a","b","l","e",":"," ">> \o table,
                           <<" "," ","-"," ","S","e","m","a","n","t","i","c","M","o","d","e","l","/","d","e","f","i","n","i","t","i","o","n","/","t","a","b","l","e","s","/">> \o table \o <<".","t","m","d","l">>,
                           <<" "," ","-"," ","S","e","m","a","n","t","i","c","M","o","d","e","l","/","d","e","f","i","n","i","t","i","o","n","/","m","o","d","e","l",".","t","m","d","l">>,
                           <<" "," ","-"," ","S","e","m","a","n","t","i","c","M","o","d","e","l","/","d","e","f","i","n","i","t","i","o","n","/","r","e","l","a","t","i","o","n","s","h","i","p","s",".","t","m","d","l">>>>]

MaxXmlRels == 2

\* the objects of the Tableau XML: tables A, B and C
XmlObjects ==
    <<[id |-> <<"a">>, caption |-> <<"A">>], [id |-> <<"b">>, caption |-> <<"B">>],
      [id |-> <<"c">>, caption |-> <<"C">>]>>

\* relationship elements: A.x = B.y, the same recorded the other way round,
\* and A.x = C.z
XmlRels == {
    [eq |-> TRUE, parts |-> <<<<"[","x","]">>, <<"[","y","]">>>>, first |-> <<"a">>, second |-> <<"b">>],
    [eq |-> TRUE, parts |-> <<<<"[","y","]">>, <<"[","x","]">>>>, first |-> <<"b">>, second |-> <<"a">>],
    [eq |-> TRUE, parts |-> <<<<"[","x","]">>, <<"[","z","]">>>>, first |-> <<"a">>, second |-> <<"c">>]}

\* columns files.  Delimited rows:
RowsFile ==
    [text |-> <<"x",",","i","n","t","6","4",",","c","o","u","n","t","\n","y",",","d","o","u","b","l","e",",","s","u","m">>, data |-> [kind |-> "str"]]

\* a list with a type alias and a column without a type
ListFile ==
    [text |-> <<"-"," ","n","a","m","e",":"," ","x","\n"," "," ","d","a","t","a","T","y","p","e",":"," ","i","n","t","e","g","e","r","\n"," "," ","s","u","m","m","a","r","i","z","e","B","y",":"," ","c","o","u","n","t","\n","-"," ","n","a","m","e",":"," ","y">>,
     data |-> [kind |-> "list", items |-> <<
        [kind |-> "map", m |-> ("name" :> StrVal(<<"x">>)) @@ ("dataType" :> StrVal(<<"i","n","t","e","g","e","r">>))
                               @@ ("summarizeBy" :> StrVal(<<"c","o","u","n","t">>))],
        [kind |-> "map", m |-> ("name" :> StrVal(<<"y">>))]>>]]

\* a list with a repeated name
DupFile ==
    [text |-> <<"-"," ","n","a","m","e",":"," ","x","\n","-"," ","n","a","m","e",":"," ","x","\n"," "," ","d","a","t","a","T","y","p","e",":"," ","d","o","u","b","l","e">>,
     data |-> [kind |-> "list", items |-> <<
        [kind |-> "map", m |-> ("name" :> StrVal(<<"x">>))],
        [kind |-> "map", m |-> ("name" :> StrVal(<<"x">>)) @@ ("dataType" :> StrVal(<<"d","o","u","b","l","e">>))]>>]]

\* a list whose names are all empty
EmptyNamesFile ==
    [text |-> <<"-"," ","n","a","m","e",":"," ","'","'","\n","-"," ","n","a","m","e",":"," ","'"," ","'">>,
     data |-> [kind |-> "list", items |-> <<
        [kind |-> "map", m |-> ("name" :> StrVal(<<>>))],
        [kind |-> "map", m |-> ("name" :> StrVal(<<" ">>))]>>]]

\* a list whose only item has no name
NoNameFile ==
    [text |-> <<"-"," ","d","a","t","a","T","y","p","e",":"," ","i","n","t","6","4">>,
     data |-> [kind |-> "list", items |-> <<
        [kind |-> "map", m |-> ("dataType" :> StrVal(<<"i","n","t","6","4">>))]>>]]

\* a pre-rendered column block
TmdlFile ==
    [text |-> <<"c","o","l","u","m","n"," ","y","\n"," "," ","d","a","t","a","T","y","p","e",":"," ","i","n","t","6","4">>, data |-> [kind |-> "str"]]

\* partition files: a let/in query and a text without let/in
LetInPartition ==
    <<"p","a","r","t","i","t","i","o","n"," ","p"," ","="," ","m","\n"," "," ","m","o","d","e",":"," ","i","m","p","o","r","t","\n"," "," ","s","o","u","r","c","e"," ","=","\n"," "," "," "," ","l","e","t","\n"," "," "," "," "," "," ","S","o","u","r","c","e"," ","="," ","1","\n"," "," "," "," ","i","n","\n"," "," "," "," "," "," ","S","o","u","r","c","e","\n">>

OpaquePartition == <<"p","a","r","t","i","t","i","o","n"," ","p"," ","="," ","m","\n"," "," ","s","o","u","r","c","e"," ","=","\n"," "," "," "," "," "," ","x","\n"," "," "," ","y">>

\* the command lines of integration runs: table, columns file, partition file
IntegrateCalls == {
    [table |-> <<"A">>, columns_file |-> RowsFile, partition_text |-> LetInPartition],
    [table |-> <<"A">>, columns_file |-> ListFile, partition_text |-> OpaquePartition],
    [table |-> <<"A">>, columns_file |-> DupFile, partition_text |-> LetInPartition],
    [table |-> <<"A">>, columns_file |-> EmptyNamesFile, partition_text |-> OpaquePartition],
    [table |-> <<"A">>, columns_file |-> NoNameFile, partition_text |-> LetInPartition],
    [table |-> <<"A">>, columns_file |-> TmdlFile, partition_text |-> OpaquePartition],
    [table |-> <<"B">>, columns_file |-> ListFile, partition_text |-> LetInPartition],
    [table |-> <<"B">>, columns_file |-> TmdlFile, partition_text |-> LetInPartition],
    [table |-> <<"A","B">>, columns_file |-> TmdlFile, partition_text |-> LetInPartition]}

\* the options of the relationships polisher when it is run on the folder
PolishArgs ==
    [tool |-> "polish_relationships_tmdl", keep |-> <<>>,
     drop_localdatetable |-> FALSE, style |-> "dot"]

\* args holds the tool and command line of the latest run (none before the
\* first one) and what every run finds: the XML and whether PyYAML is
\* installed
NoCall ==
    [table |-> <<>>, columns_file |-> [text |-> <<>>, data |-> [kind |-> "str"]],
     partition_text |-> <<>>]

InitIntegrate ==
    /\ file = [exists |-> FALSE, tables |-> <<>>, model |-> <<>>, rels |-> <<>>]
    /\ args \in [tool : {"none"}, call : {NoCall},
                 xml : {[objects |-> XmlObjects, rels |-> rs] :
                          rs \in UNION {[1..k -> XmlRels] : k \in 0..MaxXmlRels}},
                 yaml : BOOLEAN]
    /\ hist = <<file>>
    /\ stdout = <<>>
    /\ status = "none"

\* an integration run that writes the table, the model and the relationships
IntegrateWrite(c, r) ==
    /\ r.status = "ok"
    /\ file' = r.file
    /\ stdout' = r.stdout
    /\ status' = "ok"
    /\ hist' = Append(hist, r.file)
    /\ args' = [args EXCEPT !.tool = "pbip_integrate", !.call = c]

\* an integration run that ends in the exception raised by
\* load_columns_from_boss_style, after the folder was scaffolded
IntegrateRaise(c, r) ==
    /\ r.status # "ok"
    /\ file' = r.file
    /\ stdout' = r.stdout
    /\ status' = r.status
    /\ hist' = Append(hist, r.file)
    /\ args' = [args EXCEPT !.tool = "pbip_integrate", !.call = c]

\* a run of polish_relationships_tmdl.py on the folder's relationships.tmdl
IntegratePolish(r) ==
    /\ file.exists
    /\ file' = [file EXCEPT !.rels = r.file]
    /\ stdout' = r.stdout
    /\ status' = r.status
    /\ hist' = Append(hist, file')
    /\ args' = [args EXCEPT !.tool = "polish_relationships_tmdl"]

NextIntegrate ==
    /\ Len(hist) <= MaxRuns
    /\ \/ \E c \in IntegrateCalls :
            \E r \in {pbip_integrate(file, args.xml, args.yaml, c.table,
                                       c.columns_file, c.partition_text)} :
                IntegrateWrite(c, r) \/ IntegrateRaise(c, r)
       \/ \E r \in {polish_relationships(file.rels, PolishArgs)} :
            IntegratePolish(r)

SpecIntegrate == InitIntegrate /\ [][NextIntegrate]_vars

\* ------------------------------------------------------- scaffold_pbip.py
\* sorted(names) for a set of strings
RECURSIVE SortedNames(_)
SortedNames(S) ==
    IF S = {} THEN <<>>
    ELSE LET m == CHOOSE x \in S : \A y \in S \ {x} : StrLess(x, y)
         IN  <<m>> \o SortedNames(S \ {m})

\* table_names_from_dir with the names in descending order
table_names_from_dir_Reversed(tables_dir) ==
    LET up == SortedNames(tables_dir)
    IN  [i \in 1..Len(up) |-> up[Len(up) + 1 - i]]

\* table_names_from_dir: tables_dir is the set of the stems of its *.tmdl files
table_names_from_dir(tables_dir) == SortedNames(tables_dir)

\* fill_model_placeholders on an existing model.tmdl: the text it leaves and
\* whether it writes the file
fill_model_placeholders(text, tables_dir) ==
    LET names == table_names_from_dir(tables_dir)
        list_literal == <<"[">> \o Join([i \in 1..Len(names) |-> <<"'">> \o names[i] \o <<"'">>], <<","," ">>) \o <<"]">>
        refs == Join([i \in 1..Len(names) |-> <<"r","e","f"," ","t","a","b","l","e"," ">> \o names[i]], <<NL>>)
        has1 == Contains(text, <<"@","@","t","a","b","l","e","n","a","m","e","l","i","s","t","@","@">>)
        t1 == IF has1 THEN Replace(text, <<"@","@","t","a","b","l","e","n","a","m","e","l","i","s","t","@","@">>, list_literal) ELSE text
        has2 == Contains(t1, <<"@","@","r","e","f","t","a","b","l","e","@","@">>)
        t2 == IF has2 THEN Replace(t1, <<"@","@","r","e","f","t","a","b","l","e","@","@">>, refs) ELSE t1
    IN  [changed |-> has1 \/ has2, text |-> t2]

\* lines of the template model.tmdl
ModelLines == {
    <<"m","o","d","e","l"," ","M","o","d","e","l">>,
    <<" "," ","a","n","n","o","t","a","t","i","o","n"," ","P","B","I","_","Q","u","e","r","y","O","r","d","e","r"," ","="," ","@","@","t","a","b","l","e","n","a","m","e","l","i","s","t","@","@">>,
    <<"@","@","r","e","f","t","a","b","l","e","@","@">>,
    <<" "," ","@","@","r","e","f","t","a","b","l","e","@","@"," ","@","@","t","a","b","l","e","n","a","m","e","l","i","s","t","@","@">>,
    <<"r","e","f"," ","t","a","b","l","e"," ","A">>}

\* stems of the table documents in the output folder
TableStems == {<<"A">>, <<"A","B">>, <<"B">>}

\* main, step 3.5, before it runs: file is the template model.tmdl
InitScaffold ==
    /\ file \in TextsOf(ModelLines, MaxLines)
    /\ args \in [tool : {"scaffold_pbip"}, tables : SUBSET TableStems]
    /\ hist = <<file>>
    /\ stdout = <<>>
    /\ status = "none"

\* main, step 3.5: the template is copied and its placeholders are filled
ScaffoldFill(r) ==
    /\ r.changed
    /\ file' = r.text
    /\ hist' = Append(hist, r.text)
    /\ status' = "written"
    /\ UNCHANGED <<args, stdout>>

\* main, step 3.5, for a template without placeholders: the copy is left as
\* it is
ScaffoldKeep(r) ==
    /\ ~r.changed
    /\ file' = hist[1]
    /\ hist' = Append(hist, hist[1])
    /\ status' = "not written"
    /\ UNCHANGED <<args, stdout>>

NextScaffold ==
    /\ Len(hist) <= MaxRuns
    /\ \E r \in {fill_model_placeholders(hist[1], args.tables)} :
            ScaffoldFill(r) \/ ScaffoldKeep(r)

SpecScaffold == InitScaffold /\ [][NextScaffold]_vars

\* -------------------------------------------- tableau_xml_to_bossstyle_ai.py
\* parse_boss_names: the names of the lines "- name: <name>" and
\* "column <name>" of a generated columns text
parse_boss_names(boss_text) ==
    LET lines == SplitLines(boss_text)
        \* s.strip("'\"")
        RECURSIVE StripQuoteChars(_)
        StripQuoteChars(s) ==
            IF s # <<>> /\ s[1] \in {"'", "\""} THEN StripQuoteChars(Tail(s))
            ELSE IF s # <<>> /\ s[Len(s)] \in {"'", "\""}
                 THEN StripQuoteChars(SubSeq(s, 1, Len(s) - 1))
                 ELSE s
        \* end of the run of [A-Za-z0-9_\-\[\]\. ] that starts at p
        RECURSIVE SkipNameChars(_, _)
        SkipNameChars(s, p) ==
            IF p <= Len(s) /\ (IsWord(s[p]) \/ s[p] \in {"-", "[", "]", ".", " "})
            THEN SkipNameChars(s, p + 1) ELSE p
        m(ln) ==
            LET p == SkipSpace(ln, 1)
                q == SkipSpace(ln, p + 1)
                r == SkipSpace(ln, q + 4)
            IN  IF /\ At(ln, p, <<"-">>)
                   /\ At(ln, q, <<"n","a","m","e">>)
                   /\ At(ln, r, <<":">>)
                   /\ r < Len(ln)
                THEN {StripQuoteChars(Strip(Tail_(ln, r + 1)))}
                ELSE {}
        m2(ln) ==
            LET p == SkipSpace(ln, 1)
                w == SkipSpace(ln, p + 6)
                e == SkipNameChars(ln, w)
            IN  IF At(ln, p, <<"c","o","l","u","m","n">>) /\ w > p + 6
                THEN IF e > w THEN {StripQuoteChars(Strip(SubSeq(ln, w, e - 1)))}
                     ELSE IF \E k \in (p + 7)..(w - 1) : ln[k] = " " THEN {<<>>}
                     ELSE {}
                ELSE {}
    IN  UNION {m(lines[i]) \cup m2(lines[i]) : i \in 1..Len(lines)}

\* miss of main: the required columns that a generated text does not name
Missing(required_cols, boss_out) == required_cols \ parse_boss_names(boss_out)

\* the texts that a call of the generator may return
BossReplies == {
    <<>>,
    <<"-"," ","n","a","m","e",":"," ","a">>,
    <<"-"," ","n","a","m","e",":"," ","'","b","'">>,
    <<"-"," ","n","a","m","e",":"," ","a","\n","-"," ","n","a","m","e",":"," ","b">>,
    <<"c","o","l","u","m","n"," ","b","\n"," "," ","d","a","t","a","T","y","p","e",":"," ","s","t","r","i","n","g">>}

\* main of tableau_xml_to_bossstyle_ai.py up to its first generator call:
\* hist holds the text returned by every call for the columns so far, file
\* the columns file of the output directory, args.required_cols the column
\* names that extract_required_columns found in the XML
InitQuality ==
    /\ file = [exists |-> FALSE, text |-> <<>>]
    /\ args \in [tool : {"tableau_xml_to_bossstyle_ai"}, table : {<<"T">>},
                 required_cols : SUBSET {<<"a">>, <<"b">>}]
    /\ hist = <<>>
    /\ stdout = <<>>
    /\ status = "none"

\* the first call of the generator for the columns
QualityCall(boss_out) ==
    /\ status = "none"
    /\ hist' = <<boss_out>>
    /\ status' = "loop"
    /\ UNCHANGED <<file, args, stdout>>

\* one turn of the quality loop: a call with the missing columns as feedback
QualityRetry(boss_out) ==
    /\ status = "loop"
    /\ Missing(args.required_cols, hist[Len(hist)]) # {}
    /\ Len(hist) - 1 < 2
    /\ hist' = Append(hist, boss_out)
    /\ UNCHANGED <<file, args, stdout, status>>

\* the end of the loop: the latest text is written as the columns file (the
\* partition text, generated by a call of its own, is not part of the
\* state); printed paths are written relative to the output directory
QualityWrite ==
    /\ status = "loop"
    /\ ~(Missing(args.required_cols, hist[Len(hist)]) # {} /\ Len(hist) - 1 < 2)
    /\ file' = [exists |-> TRUE, text |-> hist[Len(hist)] \o <<NL>>]
    /\ stdout' = <<<<"D","o","n","e",".">>,
                    <<" ","-"," ">> \o args.table \o <<"_","c","o","l","u","m","n","s","_","b","o","s","s","_","s","t","y","l","e",".","t","x","t">>,
                    <<" ","-"," ">> \o args.table \o <<"_","p","a","r","t","i","t","i","o","n",".","m">>,
                    <<" ","-"," ","c","o","n","t","e","x","t",".","j","s","o","n">>>>
    /\ status' = "written"
    /\ UNCHANGED <<args, hist>>

NextQuality ==
    \/ \E boss_out \in BossReplies : QualityCall(boss_out) \/ QualityRetry(boss_out)
    \/ QualityWrite

SpecQuality == InitQuality /\ [][NextQuality]_vars

\* ------------------------------------------------------------ C1
\* "already fully in label-colon style": no line is a brace opener or a
\* brace-only line
IsLabelStyle(t) ==
    \A i \in 1..Len(SplitLines(t)) :
        LET line == SplitLines(t)[i]
        IN  /\ ~RE_TABLE_HEADER(line) /\ ~RE_MODEL_HEADER(line)
            /\ ~RE_REL_HEADER(line) /\ ~RE_BLOCK_LABELS(line)
            /\ ~RE_OPEN_BRACE_LINE(line) /\ ~RE_CLOSE_BRACE_LINE(line)

\* no run of three "\n", no white space at either end but the one final "\n"
IsTidy(t) ==
    /\ t = Strip(t) \o <<NL>>
    /\ ~Contains(t, <<NL, NL, NL>>)

\* C1 as stated: transform_text is idempotent, and every text in label-colon
\* style (no brace opener, no brace-only line) is returned byte-identical.
C1_AsStated ==
    /\ Len(hist) >= 3 => hist[3] = hist[2]
    /\ (Len(hist) >= 2 /\ IsLabelStyle(hist[1])) => hist[2] = hist[1]

\* C1 amended: transform_text is idempotent (a second process_file run writes
\* nothing new), and a text in label-colon style is returned byte-identical
\* when it is also tidy: ends in exactly one "\n", has no other white space at
\* its ends and no run of three or more "\n".
C1_Idempotent ==
    /\ transform_text(transform_text(file)) = transform_text(file)
    /\ Len(hist) >= 3 => hist[3] = hist[2]
    /\ (IsLabelStyle(file) /\ IsTidy(file)) => transform_text(file) = file

\* a first run rewrote a brace-style file and a second run has been made
C1_Witness ==
    /\ Len(hist) >= 3
    /\ hist[2] # hist[1]
    /\ ~IsLabelStyle(hist[1])
    /\ IsLabelStyle(file) /\ IsTidy(file)

\* ------------------------------------------------------------ C2
\* C2: the partition normalizer is idempotent: normalizing its own output
\* changes nothing, so a second process_file run writes the same file.
C2_Idempotent ==
    Len(hist) >= 3 => hist[3] = hist[2]

\* ------------------------------------------------------------ C3
\* C3: re-running the table polisher is a no-op: the file a second polish_file
\* run writes is byte-identical to the file the first run wrote.
C3_Idempotent ==
    (Len(hist) >= 3 /\ args.tool = "polish_tables_tmdl") => hist[3] = hist[2]

\* ------------------------------------------- relationships: shared notions
\* the relationship blocks of relationships.tmdl as it is now
FileBlocks == parse_blocks(strip_wrapper_and_unquote(file))

\* the file the latest run read, and its relationship blocks
LastInput == hist[Len(hist) - 1]
InputBlocks == parse_blocks(strip_wrapper_and_unquote(LastInput))

\* the normalized endpoint pair of a block
Pair(b) == <<norm_col(b.from_col), norm_col(b.to_col)>>

\* the entries "left=right" of a --keep value as written, normalized
KeepEntries(keep) ==
    LET items == Split(keep, ",")
    IN  {<<norm_col(SubSeq(items[i], 1, FirstOf(items[i], "=") - 1)),
           norm_col(Tail_(items[i], FirstOf(items[i], "=") + 1))>> :
           i \in {j \in 1..Len(items) : FirstOf(items[j], "=") <= Len(items[j])}}

\* the pair is among the entries in one of the two orders
InEntries(p, entries) == p \in entries \/ <<p[2], p[1]>> \in entries

\* the pair is an allow-list entry in one of the two orders
InAllowList(p, keep) == InEntries(p, KeepEntries(keep))

\* the pair touches the auto date table
HasLocal(p) ==
    \/ Contains(p[1], <<"L","o","c","a","l","D","a","t","e","T","a","b","l","e">>)
    \/ Contains(p[2], <<"L","o","c","a","l","D","a","t","e","T","a","b","l","e">>)

\* ------------------------------------------------------------ C4
\* C4: re-running the relationships polisher is a no-op: when a first run
\* succeeds, a second run with the same options leaves relationships.tmdl
\* byte-identical to what the first run wrote.
C4_Idempotent ==
    (Len(hist) >= 3 /\ args.tool = "polish_relationships_tmdl")
        => hist[3] = hist[2]

\* ------------------------------------------------------------ C5
\* C5: norm_col is a fixed point after one application: for every endpoint
\* reference r of the file, norm_col(norm_col(r)) = norm_col(r).
C5_FixedPoint ==
    \A bs \in {FileBlocks} :
        \A i \in 1..Len(bs) :
            \A r \in {bs[i].from_col, bs[i].to_col} :
                norm_col(norm_col(r)) = norm_col(r)

\* ------------------------------------------------------------ C6
\* a reference "Column (Table)": no bracket, no dot, a closing parenthetical
IsSuffixOnly(r) ==
    /\ r # <<>>
    /\ r[Len(r)] = ")"
    /\ FirstOf(r, "(") > 1 /\ FirstOf(r, "(") < Len(r)
    /\ FirstOf(r, "[") > Len(r)
    /\ FirstOf(r, ".") > Len(r)

\* the table named in the parenthetical, and the column before it
SuffixTable(r) == SubSeq(r, FirstOf(r, "(") + 1, Len(r) - 1)
SuffixColumn(r) == Strip(SubSeq(r, 1, FirstOf(r, "(") - 1))

\* C6: a reference that carries only a parenthetical table suffix,
\* "Column (Table)", normalizes to "Table.Column", the same result as its
\* bracket form "Table[Column (Table)]".
C6_SuffixEqualsBracket ==
    \A bs \in {FileBlocks} :
        \A i \in 1..Len(bs) :
            \A r \in {bs[i].from_col, bs[i].to_col} :
                IsSuffixOnly(r) =>
                    /\ norm_col(r) = SuffixTable(r) \o <<".">> \o SuffixColumn(r)
                    /\ norm_col(r) = norm_col(SuffixTable(r) \o <<"[">> \o r \o <<"]">>)

\* ------------------------------------------------------------ C7
\* C7: no endpoint reference makes relationship normalization fail: a polish
\* run ends by writing the file or by the all-dropped exit, never by an
\* unhandled exception.
C7_NoException ==
    status # "ValueError"

\* ------------------------------------------------------------ C8
\* C8: allow-list matching is symmetric: a relationship whose normalized pair
\* equals a --keep entry in the order written or in the reverse order (and
\* that --drop-localdatetable does not remove) is kept: the run succeeds and
\* the file holds the rewritten block.
C8_Symmetric ==
    Len(hist) >= 2 =>
        \A bs \in {InputBlocks}, entries \in {KeepEntries(args.keep)} :
            \A i \in 1..Len(bs) :
                \A p \in {Pair(bs[i])} :
                    (InEntries(p, entries)
                        /\ ~(args.drop_localdatetable /\ HasLocal(p)))
                    => /\ status = "ok"
                       /\ Contains(file, rewrite_from_to(Strip(bs[i].block),
                                                         p[1], p[2], args.style))

\* a run kept a relationship stored in the reverse order of its --keep entry
\* and dropped another relationship
C8_Witness ==
    /\ Len(hist) >= 2
    /\ status = "ok"
    /\ \E bs \in {InputBlocks}, entries \in {KeepEntries(args.keep)} :
          \E i, j \in 1..Len(bs) :
              /\ Pair(bs[i]) \notin entries
              /\ InEntries(Pair(bs[i]), entries)
              /\ Contains(file, rewrite_from_to(Strip(bs[i].block),
                                                Pair(bs[i])[1],
                                                Pair(bs[i])[2], args.style))
              /\ ~InEntries(Pair(bs[j]), entries)
              /\ Len(FileBlocks) < Len(bs)

\* ------------------------------------------------------------ C9
\* C9: whenever --keep is non-empty, every relationship written to the output
\* has its normalized pair, in one of the two orders, among the allow-list
\* entries.
C9_OnlyAllowed ==
    (Len(hist) >= 2 /\ status = "ok" /\ Strip(args.keep) # <<>>) =>
        \A bs \in {FileBlocks}, entries \in {KeepEntries(args.keep)} :
            \A i \in 1..Len(bs) : InEntries(Pair(bs[i]), entries)

\* ------------------------------------------------------------ C10
\* C10: if filtering removes every relationship of a document that has some,
\* the run exits with status 1, prints one line "  from=to" for every
\* detected pair in order, and leaves relationships.tmdl as it was; a run
\* that succeeds never leaves a document without relationships.
C10_FatalEmpty ==
    Len(hist) >= 2 =>
        \A recs \in {Decisions(LastInput, args)} :
            /\ (recs # <<>> /\ \A i \in 1..Len(recs) : ~recs[i].keep) =>
                  /\ status = "exit1"
                  /\ file = LastInput
                  /\ Len(stdout) >= Len(recs) + 2
                  /\ \A i \in 1..Len(recs) :
                        stdout[i + 2] = <<" "," ">> \o recs[i].f \o <<"=">> \o recs[i].t
            /\ status = "ok" => FileBlocks # <<>>

\* a run found two relationships, an allow-list that matches neither, and
\* ended in the exit with both pairs printed
C10_Witness ==
    /\ Len(hist) >= 2
    /\ status = "exit1"
    /\ \E bs \in {InputBlocks} :
          Len(bs) = 2 /\ Pair(bs[1]) # Pair(bs[2])
    /\ KeepEntries(args.keep) # {}
    /\ ~args.drop_localdatetable
    /\ Len(stdout) >= 4
    /\ file = LastInput

\* ------------------------------------------- integration: shared notions
\* the relationship blocks of the folder's relationships.tmdl
RelsDocBlocks == parse_blocks(strip_wrapper_and_unquote(file.rels))

\* a name without the single quotes around it
Unquoted(s) ==
    IF Len(s) >= 2 /\ s[1] = "'" /\ s[Len(s)] = "'"
    THEN SubSeq(s, 2, Len(s) - 1) ELSE s

\* table and column of a normalized endpoint "Table.Column"
EndpointTable(e) == Unquoted(SubSeq(e, 1, FirstOf(e, ".") - 1))
EndpointColumn(e) == Unquoted(Tail_(e, FirstOf(e, ".") + 1))

\* the names of the column blocks of a table document, in order
ColumnNames(doc) ==
    LET lines == SelectSeq(SplitLines(doc), LAMBDA ln : RE_COLUMN(Strip(ln)))
    IN  [i \in 1..Len(lines) |->
            Unquoted(Strip(Tail_(Strip(lines[i]), 7)))]

\* ------------------------------------------------------------ C11
\* C11: relationships are deduplicated on the unordered pair of endpoints: no
\* relationships document holds two relationships with the same endpoint
\* pair, whether recorded in the same order or as A.x->B.y and B.y->A.x.
C11_NoDuplicatePairs ==
    file.exists =>
        \A bs \in {RelsDocBlocks} :
            \A i, j \in 1..Len(bs) :
                i < j => /\ Pair(bs[i]) # Pair(bs[j])
                         /\ Pair(bs[i]) # <<Pair(bs[j])[2], Pair(bs[j])[1]>>

\* ------------------------------------------------------------ C12
\* C12: the drop-date-table filter overrides the allow-list: with
\* --drop-localdatetable set, a successful run writes no relationship that
\* touches LocalDateTable, and every such relationship of the input is
\* reported under "Dropped:", also when its pair is listed in --keep.
C12_DateTableOverridesKeep ==
    (Len(hist) >= 2 /\ args.drop_localdatetable /\ status = "ok") =>
        /\ \A bs \in {FileBlocks} :
              \A i \in 1..Len(bs) : ~HasLocal(Pair(bs[i]))
        /\ \A bs \in {InputBlocks} :
              \A i \in 1..Len(bs) :
                  HasLocal(Pair(bs[i])) =>
                      \E k, j \in 1..Len(stdout) :
                          /\ k < j
                          /\ stdout[k] = <<" ","D","r","o","p","p","e","d",":">>
                          /\ stdout[j] = <<" "," ","-"," ">> \o Pair(bs[i])[1]
                                           \o <<" ","-",">"," ">> \o Pair(bs[i])[2]

\* a run with --drop-localdatetable dropped a date-table relationship that
\* --keep lists and kept another relationship
C12_Witness ==
    /\ Len(hist) >= 2
    /\ args.drop_localdatetable
    /\ status = "ok"
    /\ \E bs \in {InputBlocks} :
          /\ Len(bs) = 2
          /\ \E i \in 1..Len(bs) :
                HasLocal(Pair(bs[i])) /\ InAllowList(Pair(bs[i]), args.keep)
    /\ Len(FileBlocks) = 1

\* ------------------------------------------------------------ C13
\* C13: referential integrity: every relationship of relationships.tmdl
\* references only tables that have a table document in the folder and
\* columns that have a column block in that document.
C13_ReferentialIntegrity ==
    file.exists =>
        \A bs \in {RelsDocBlocks} :
            \A i \in 1..Len(bs) :
                \A e \in {Pair(bs[i])[1], Pair(bs[i])[2]} :
                    /\ EndpointTable(e) \in DOMAIN file.tables
                    /\ \E names \in {ColumnNames(file.tables[EndpointTable(e)])} :
                          \E k \in 1..Len(names) : names[k] = EndpointColumn(e)

\* ------------------------------------------------------------ C14
\* C14: brace-doubling repair is complete: after the partition normalizer has
\* run on a file that holds doubled braces, the file it wrote holds no "{{" and
\* no "}}" any more.
C14_NoDoubledBraces ==
    (Len(hist) >= 2 /\ (Contains(hist[1], <<"{","{">>) \/ Contains(hist[1], <<"}","}">>)))
        => /\ ~Contains(hist[2], <<"{","{">>)
           /\ ~Contains(hist[2], <<"}","}">>)

\* ------------------------------------------- partitions: shared notions
\* the number of blanks a line starts with
Depth(line) == SkipBlank(line, 1) - 1

\* lines s .. n + 1 of a document are a query: "source =", "let" on the next
\* line, a body, the first later "in" on line n, and a return expression
\* after it
IsQuery(lines, s, n) ==
    /\ s + 1 < n /\ n < Len(lines)
    /\ Strip(lines[s]) = <<"s","o","u","r","c","e"," ","=">>
    /\ Strip(lines[s + 1]) = <<"l","e","t">>
    /\ Strip(lines[n]) = <<"i","n">>
    /\ \A k \in (s + 2)..(n - 1) : Strip(lines[k]) # <<"i","n">>
    /\ \E k \in (s + 2)..(n - 1) : Strip(lines[k]) # <<>>
    /\ Strip(lines[n + 1]) # <<>>

\* ------------------------------------------------------------ C15
\* C15: in the file the partition normalizer wrote, every let/body/in/return
\* query keeps the indentation contract: "source =" is shallower than "let",
\* "let" and "in" are at the same depth, every body line is deeper than "let",
\* and the return expression is at the depth of "in", shallower than the body.
C15_IndentContract ==
    Len(hist) >= 2 =>
        \A lines \in {SplitLines(hist[2])} :
            \A s, n \in 1..Len(lines) :
                IsQuery(lines, s, n) =>
                    /\ Depth(lines[s]) < Depth(lines[s + 1])
                    /\ Depth(lines[n]) = Depth(lines[s + 1])
                    /\ \A k \in (s + 2)..(n - 1) :
                          Strip(lines[k]) # <<>> => Depth(lines[k]) > Depth(lines[n])
                    /\ Depth(lines[n + 1]) = Depth(lines[n])

\* ------------------------------------------------------------ C16
\* the lines of the partition block of a table document: those between the
\* line "  partitions {" and the last line "  }"
PartitionBlockLines(doc) ==
    LET lines == SplitLines(doc)
        open == {p \in 1..Len(lines) : lines[p] = <<" "," ","p","a","r","t","i","t","i","o","n","s"," ","{">>}
        close == {q \in 1..Len(lines) : lines[q] = <<" "," ","}">>}
    IN  IF open = {} \/ close = {} THEN <<>>
        ELSE SubSeq(lines, MinOf(open) + 1, MaxOf(close) - 1)

\* C16: a partition text with no let/in pair is emitted as an opaque block:
\* in every table document integration wrote from such a text, all non-empty
\* lines of the partition block are at one depth, three levels below the
\* table, so deeper than the two blanks of the line that opens the block.
C16_OpaqueBlock ==
    file.exists =>
        \A t \in DOMAIN file.tables :
            \A b \in {PartitionBlockLines(file.tables[t])} :
                (\A k \in 1..Len(b) : Strip(b[k]) # <<"l","e","t">>) =>
                    \A i, j \in 1..Len(b) :
                        (Strip(b[i]) # <<>> /\ Strip(b[j]) # <<>>) =>
                            /\ Depth(b[i]) = Depth(b[j])
                            /\ Depth(b[i]) > 2

\* ------------------------------------------------------------ C17
\* C17: an integration run whose columns file is delimited rows ends well
\* (PyYAML being installed) and the table document it wrote holds one column
\* block per row, in the order of the rows.
C17_RowsRendered ==
    (args.tool = "pbip_integrate" /\ args.yaml /\ args.call.columns_file = RowsFile) =>
        /\ status = "ok"
        /\ args.call.table \in DOMAIN file.tables
        /\ ColumnNames(file.tables[args.call.table]) = <<<<"x">>, <<"y">>>>

\* ------------------------------------------------------------ C18
\* the values of the "dataType:" lines of a table document, in order
DataTypes(doc) ==
    LET lines == SelectSeq(SplitLines(doc),
                    LAMBDA ln : At(Strip(ln), 1, <<"d","a","t","a","T","y","p","e",":">>))
    IN  [i \in 1..Len(lines) |-> Strip(Tail_(Strip(lines[i]), 10))]

\* the table document the latest run wrote from a list of column records
WroteFromList ==
    /\ args.tool = "pbip_integrate" /\ status = "ok"
    /\ args.call.columns_file.data.kind = "list"

\* C18: every "dataType:" line of a table document rendered from column
\* records carries one of the values int64, double, dateTime, string.
C18_CanonicalTypes ==
    WroteFromList =>
        \A ts \in {DataTypes(file.tables[args.call.table])} :
            \A i \in 1..Len(ts) :
                ts[i] \in {<<"i","n","t","6","4">>, <<"d","o","u","b","l","e">>,
                           <<"d","a","t","e","T","i","m","e">>,
                           <<"s","t","r","i","n","g">>}

\* ------------------------------------------------------------ C19
\* C19: integration never writes, from a list of column records, a table
\* document without a column: a run on a list that yields no usable record
\* ends in an error instead.
C19_NoEmptyColumnBlock ==
    WroteFromList => ColumnNames(file.tables[args.call.table]) # <<>>

\* ------------------------------------------------------------ C20
\* C20: column names are unique within a table document rendered from column
\* records: no two of its column blocks carry the same name.
C20_UniqueNames ==
    WroteFromList =>
        \A names \in {ColumnNames(file.tables[args.call.table])} :
            \A i, j \in 1..Len(names) : i < j => names[i] # names[j]

\* ------------------------------------------------------------ C21
\* the lines of a table document that are PBI_ResultType annotations
ResultTypeLines(text) ==
    SelectSeq(SplitLines(text),
              LAMBDA ln : At(Strip(ln), 1, <<"a","n","n","o","t","a","t","i","o","n"," ","P","B","I","_","R","e","s","u","l","t","T","y","p","e">>))

IsNamedOpener(line) ==
    LET P == Strip(BeforeBrace(line))
        w == SkipWord(P, 1)
    IN  /\ EndsWithBrace(line)
        /\ w > 1 /\ w < Len(P) /\ IsSpace(P[w])
        /\ \A i \in 1..Len(P) : P[i] \notin {"{", "}"}

\* C22: the text transform_text returns for a file that is not JSON holds no
\* line that is only a brace, no block opener "<keyword> <name> {" and no
\* container opener "<keyword> {" of the recognized keywords.
C22_BraceToLabel ==
    (Len(hist) >= 2 /\ args.tool = "normalize_tmdl_style" /\ ~is_json_like(hist[1])) =>
        \A lines \in {SplitLines(hist[2])} :
            \A i \in 1..Len(lines) :
                /\ Strip(lines[i]) \notin {<<"{">>, <<"}">>}
                /\ ~IsNamedOpener(lines[i])
                /\ ~(EndsWithBrace(lines[i]) /\ Strip(BeforeBrace(lines[i])) \in BLOCK_OPENERS)

\* ------------------------------------------------------------ C23
\* the names of a set in alphabetical order
Alphabetical(S) ==
    CHOOSE seq \in [1..Cardinality(S) -> S] :
        \A i, j \in 1..Cardinality(S) : i < j => StrLess(seq[i], seq[j])

\* a template with each placeholder replaced in one pass over the text: the
\* name list by "['N1', 'N2']", the reference placeholder by one
\* "ref table N" line per name
RECURSIVE Resolved(_, _)
Resolved(t, names) ==
    LET list == <<"@","@","t","a","b","l","e","n","a","m","e","l","i","s","t","@","@">>
        refs == <<"@","@","r","e","f","t","a","b","l","e","@","@">>
        hits == {p \in 1..Len(t) : At(t, p, list) \/ At(t, p, refs)}
        p == MinOf(hits)
    IN  IF hits = {} THEN t
        ELSE IF At(t, p, list)
        THEN SubSeq(t, 1, p - 1)
             \o <<"[">> \o Join([i \in 1..Len(names) |-> <<"'">> \o names[i] \o <<"'">>], <<","," ">>) \o <<"]">>
             \o Resolved(Tail_(t, p + 17), names)
        ELSE SubSeq(t, 1, p - 1)
             \o Join([i \in 1..Len(names) |-> <<"r","e","f"," ","t","a","b","l","e"," ">> \o names[i]], <<NL>>)
             \o Resolved(Tail_(t, p + 12), names)

HasPlaceholder(t) ==
    Contains(t, <<"@","@","t","a","b","l","e","n","a","m","e","l","i","s","t","@","@">>) \/ Contains(t, <<"@","@","r","e","f","t","a","b","l","e","@","@">>)

\* C23: after the placeholders were filled, model.tmdl is the template with
\* every placeholder replaced by the list or the reference lines of the table
\* names in alphabetical order and nothing else changed; a template without
\* a placeholder is not written and stays byte-identical.
C23_PureSubstitution ==
    (Len(hist) >= 2 /\ args.tool = "scaffold_pbip") =>
        /\ file = Resolved(hist[1], Alphabetical(args.tables))
        /\ HasPlaceholder(hist[1]) => status = "written"
        /\ ~HasPlaceholder(hist[1]) => (status = "not written" /\ file = hist[1])

\* a template with both placeholders resolved for two tables or more
C23_Witness ==
    /\ Len(hist) >= 2 /\ args.tool = "scaffold_pbip"
    /\ Contains(hist[1], <<"@","@","t","a","b","l","e","n","a","m","e","l","i","s","t","@","@">>) /\ Contains(hist[1], <<"@","@","r","e","f","t","a","b","l","e","@","@">>)
    /\ Cardinality(args.tables) >= 2
    /\ status = "written" /\ file # hist[1] /\ ~HasPlaceholder(file)

\* a template without placeholders left as it is
C23_KeptWitness ==
    /\ Len(hist) >= 2 /\ args.tool = "scaffold_pbip"
    /\ hist[1] # <<>> /\ ~HasPlaceholder(hist[1]) /\ status = "not written"

\* ------------------------------------------------------------ C24
\* kinds of lines of a canonical relationships document
IsRelHeader(ln) == BLOCK_START(ln) /\ ~WRAPPER_LINE(ln)
IsEndpointLine(ln, label) ==
    /\ At(ln, 1, <<" ", " ">> \o label \o <<":", " ">>)
    /\ \E e \in {Tail_(ln, Len(label) + 5)} :
          FirstOf(e, ".") > 1 /\ FirstOf(e, ".") < Len(e)
IsCrossLine(ln) ==
    At(Strip(ln), 1, <<"c","r","o","s","s","F","i","l","t","e","r","i","n","g","B","e","h","a","v","i","o","r",":">>)

\* lines h .. e are one block: header, fromColumn, toColumn and an optional
\* crossFilteringBehavior line
IsCanonicalBlock(lines, h, e) ==
    /\ e \in {h + 2, h + 3} /\ e <= Len(lines)
    /\ IsRelHeader(lines[h])
    /\ IsEndpointLine(lines[h + 1], <<"f","r","o","m","C","o","l","u","m","n">>)
    /\ IsEndpointLine(lines[h + 2], <<"t","o","C","o","l","u","m","n">>)
    /\ e = h + 3 => IsCrossLine(lines[e])

\* C24: every relationships document the polisher wrote is a flat sequence of
\* blocks: it starts with a block, each block is a header line, a fromColumn
\* line, a toColumn line and an optional crossFilteringBehavior line, and a
\* block is followed by the end of the document or by one blank line and the
\* next block; so no wrapper, brace or other line remains.
C24_FlatBlocks ==
    (args.tool = "polish_relationships_tmdl" /\ status = "ok") =>
        \A lines \in {SplitLines(file.rels)} :
            /\ lines # <<>> /\ IsRelHeader(lines[1])
            /\ \A h \in 1..Len(lines) :
                  IsRelHeader(lines[h]) =>
                      \E e \in {h + 2, h + 3} :
                          /\ IsCanonicalBlock(lines, h, e)
                          /\ \/ e = Len(lines)
                             \/ /\ e + 2 <= Len(lines)
                                /\ lines[e + 1] = <<>>
                                /\ IsRelHeader(lines[e + 2])

\* ------------------------------------------------------------ C25
\* the number of "ref table <name>" entries of a model document for a table:
\* occurrences of the text that the rest of a longer name does not follow
RefCount(model, table) ==
    LET ref == <<"r","e","f"," ","t","a","b","l","e"," ">> \o fmt_ident(table)
    IN  Cardinality({p \in 1..Len(model) :
                        /\ At(model, p, ref)
                        /\ p + Len(ref) <= Len(model) => ~IsWord(model[p + Len(ref)])})

\* C25: model.tmdl holds exactly one ref table entry for every table that an
\* integration run has written, in whatever order the tables were integrated.
C25_RefPerTable ==
    file.exists =>
        \A t \in DOMAIN file.tables : RefCount(file.model, t) = 1

\* ------------------------------------------------------------ C26
\* C26: an integration run that ends in the exception of
\* load_columns_from_boss_style prints nothing and leaves the folder without
\* output for its table: the table documents are those of before the run, a
\* folder that existed is unchanged in model.tmdl and relationships.tmdl, and
\* a new folder holds the scaffold's model.tmdl (no ref entry for the table)
\* and the scaffold's relationships.tmdl.
C26_NoPartialOutput ==
    (Len(hist) >= 2 /\ args.tool = "pbip_integrate" /\ status # "ok") =>
        \A prev \in {hist[Len(hist) - 1]} :
            /\ status \in {"ValueError", "RuntimeError"}
            /\ stdout = <<>>
            /\ file.exists
            /\ file.tables = prev.tables
            /\ RefCount(file.model, args.call.table)
                   = IF prev.exists THEN RefCount(prev.model, args.call.table) ELSE 0
            /\ prev.exists => (file.model = prev.model /\ file.rels = prev.rels)
            /\ ~prev.exists => (file.model = ScaffoldModel /\ file.rels = ScaffoldRels)

\* PyYAML being installed, a run whose columns file is not a list of records
\* raised after an earlier run had written another table and a relationship
C26_Witness ==
    /\ Len(hist) = 3
    /\ args.tool = "pbip_integrate"
    /\ args.yaml
    /\ status = "ValueError"
    /\ DOMAIN file.tables # {}
    /\ args.call.table \notin DOMAIN file.tables
    /\ file.rels # ScaffoldRels
    /\ file = hist[2]

\* ------------------------------------------------------------ C27
\* C27: the generator is called at most three times for the columns, a call
\* after the first is made only when the text before it missed a required
\* column, and the columns file that is written names every required column.
C27_CoversRequired ==
    /\ Len(hist) <= 3
    /\ \A k \in 2..Len(hist) : Missing(args.required_cols, hist[k - 1]) # {}
    /\ status = "written" => Missing(args.required_cols, file.text) = {}

\* ------------------------------------------------------------ C28
\* the table name of a normalized endpoint: the text before its first "."
TableOf(endpoint) ==
    LET dots == {p \in 1..Len(endpoint) : endpoint[p] = "."}
    IN  IF dots = {} THEN endpoint ELSE SubSeq(endpoint, 1, MinOf(dots) - 1)

\* the name starts with the reserved name of auto date tables, in any case
IsDateTableName(name) ==
    AtCI(name, 1, <<"l","o","c","a","l","d","a","t","e","t","a","b","l","e">>)

\* C28: in a run with the drop flag and no allow-list, a relationship is
\* dropped exactly when the table name of its from or to endpoint starts with
\* the reserved name; the kept ones are the blocks of the written document.
C28_PrefixOfTableName ==
    (Len(hist) >= 2 /\ args.drop_localdatetable /\ args.keep = <<>>) =>
        \A recs \in {Decisions(LastInput, args)} :
            /\ \A i \in 1..Len(recs) :
                  ~recs[i].keep <=> \/ IsDateTableName(TableOf(recs[i].f))
                                    \/ IsDateTableName(TableOf(recs[i].t))
            /\ status = "ok" =>
                  Len(FileBlocks) = Len(SelectSeq(recs, LAMBDA r : r.keep))

\* ------------------------------------------------------------ C29
\* line j of the lines starts a table, a column or a partition
IsBlockStart(lines, j) ==
    \/ RE_TABLE(Strip(lines[j]))
    \/ RE_COLUMN(Strip(lines[j]))
    \/ RE_PARTITION(Strip(lines[j]))

\* C29: in a polished table document, every non-empty line strictly between
\* the let line and the in line of a partition is one level (two spaces)
\* deeper than the let line, whatever it holds.
C29_BodyDepth ==
    Len(hist) >= 2 =>
        \A lines \in {SplitLines(file)} :
            \A p, l, n \in 1..Len(lines) :
                (/\ p < l /\ l < n
                 /\ RE_PARTITION(Strip(lines[p]))
                 /\ \A j \in (p + 1)..n : ~IsBlockStart(lines, j)
                 /\ RE_LET(Strip(lines[l]))
                 /\ RE_IN(Strip(lines[n]))
                 /\ \A j \in (l + 1)..(n - 1) :
                        ~RE_LET(Strip(lines[j])) /\ ~RE_IN(Strip(lines[j])))
                => \A j \in (l + 1)..(n - 1) :
                       Strip(lines[j]) # <<>> => Depth(lines[j]) = Depth(lines[l]) + 2

\* ------------------------------------------------------------ C30
\* C30: in a polished table document, within one column, the properties that
\* directly follow a variation line are at indent 6, and a column property or
\* a column annotation (one other than the table's PBI_ResultType) that
\* follows the variation and its properties is at indent 4.
C30_LeavesVariation ==
    Len(hist) >= 2 =>
        \A lines \in {SplitLines(file)} :
            \A c, v, j \in 1..Len(lines) :
                (/\ c < v /\ v < j
                 /\ RE_COLUMN(Strip(lines[c]))
                 /\ \A k \in (c + 1)..j : ~IsBlockStart(lines, k)
                 /\ RE_VARIATION(Strip(lines[v]))
                 /\ \A k \in (v + 1)..j : ~RE_VARIATION(Strip(lines[k])))
                => /\ (\A k \in (v + 1)..j : RE_VAR_PROP(Strip(lines[k])))
                          => Depth(lines[j]) = 6
                   /\ (\/ RE_COL_PROP(Strip(lines[j]))
                       \/ /\ RE_COL_ANN(Strip(lines[j]))
                          /\ ~Contains(lines[j], ResultTypeAnnotation))
                          => Depth(lines[j]) = 4

============================================================================
